---- MODULE Spec2Model ----
(***************************************************************************)
(* Speech-capture and transcript-assembly pipeline of the presentation     *)
(* assistant: the recognition hooks, the managers they drive, the browser   *)
(* engines they listen to, and the page handlers that assemble the          *)
(* transcript.  Every hook is a state machine of its own, held in one       *)
(* record; a handler is an operator from the record before to the record    *)
(* after, and a specification per hook runs its handlers against the        *)
(* environment (the browser engine, the timers of the event loop, the       *)
(* caller).                                                                 *)
(*                                                                         *)
(* Text is a sequence of one-character strings, so that concatenation and   *)
(* trim() are computed and not assumed.                                     *)
(***************************************************************************)
EXTENDS Integers, Sequences, FiniteSets, TLC

\* ------------------------------------------------------------------ bounds
MaxInst == 1        \* recognition engine objects alive at once
MaxMgr == 2         \* SpeechRecognitionManager objects alive at once
MaxTimers == 2      \* setTimeout callbacks pending at once
MaxText == 2        \* characters of accumulated transcript text
MaxBatch == 2       \* results carried by one recognition event
MaxChunks == 2      \* audio chunks waiting in chunksRef
MaxInflight == 2    \* uploads of the streaming hook awaiting their response
MaxCycles == 2      \* recording cycles counted
MaxEntries == 2     \* fragments and file segments a page is handed
MaxTranscript == 4  \* characters of the streaming hook's transcript
MaxStreams == 2     \* microphone streams alive or asked for at once
MaxSessions == 2    \* session identifiers the streaming hook generates in a run
MaxTokText == 3     \* characters of the text handed to TokenizedText
MaxWords == 3       \* words of one Deepgram result
MaxPosted == 3      \* characters of the text posted to /api/tokenize
MaxFetches == 2     \* requests of one TokenizedText awaiting their response
MaxProp == 2        \* characters of a text the prop of TokenizedText changes to

\* ------------------------------------------------------- program constants
maxRetries == 3             \* useWebSpeechRecognition: const maxRetries = 3
retryDelayRef == 1000       \* useWebSpeechRecognition: useRef<number>(1000)
autoRestartDelay == 100     \* useWebSpeechRecognition onend: setTimeout(..., 100)
maxFallbackAttempts == 2    \* SpeechRecognitionManager: private maxFallbackAttempts = 2
fallbackDelay == 1000       \* SpeechRecognitionManager onerror: setTimeout(..., 1000)
srMaxRetries == 3           \* useSpeechRecognition: maxRetries = 3
retryDelay == 2000          \* useSpeechRecognition: retryDelay = 2000
recordingDuration == 12000  \* useExternalSpeechRecognition: recordingDuration = 12000
restartDelay == 100         \* useExternalSpeechRecognition onstop: setTimeout(..., 100)
mrmRecordingDuration == 5000    \* MediaRecorderSpeechManager: recordingDuration: 5000
mrmRestartDelay == 500          \* processRecording: setTimeout(restart, 500)
defaultConfidence == 80     \* data.result.confidence || 0.8, in percent

VARIABLES
    backend,                \* the hook this run drives
    hasSpeechRecognition,   \* window.SpeechRecognition || webkitSpeechRecognition
    online,                 \* navigator.onLine
    web,                    \* useWebSpeechRecognition: props, state, refs, engines, timers
    sr,                     \* useSpeechRecognition: props, state, refs, managers, timers
    ext,                    \* useExternalSpeechRecognition: props, state, refs, recorder
    strm,                   \* useStreamingSpeechRecognition: props, state, refs, recorder
    rt,                     \* useRealtimeSpeechRecognition: state, refs, socket
    mrm,                    \* useMediaRecorderSpeech and its MediaRecorderSpeechManager
    tok,                    \* TokenizedText: its text, words, timer and request
    route,                  \* a batch transcription route: its request and its response
    tokenize,               \* /api/tokenize: its request and its response
    presentation,           \* presentation/[id]/page.tsx: transcriptEntries and its counter
    assistant               \* page.tsx, PresentationAssistant: transcriptEntries and its counter

vars == <<backend, hasSpeechRecognition, online, web, sr, ext, strm, rt, mrm, tok,
          route, tokenize, presentation, assistant>>

\* ------------------------------------------------------------------- text
Null == "null"
Fragments == {<<>>, <<" ">>, <<"a">>, <<"b">>}

RECURSIVE TrimLeft(_)
TrimLeft(s) == IF s # <<>> /\ Head(s) = " " THEN TrimLeft(Tail(s)) ELSE s

RECURSIVE TrimRight(_)
TrimRight(s) ==
    IF s # <<>> /\ s[Len(s)] = " " THEN TrimRight(SubSeq(s, 1, Len(s) - 1)) ELSE s

\* String.prototype.trim()
Trim(s) == TrimRight(TrimLeft(s))

\* ------------------------------------------------------------ observation
\* Every hook record carries what its last handler did: op, the handler and
\* its input; onErrorCalls and onResultCalls, what it passed to the caller's
\* onError and onResult, in order.
Op(name, arg) == [name |-> name, arg |-> arg]

Begin(s, name, arg) ==
    [s EXCEPT !.op = Op(name, arg), !.onErrorCalls = <<>>, !.onResultCalls = <<>>]

CallOnError(s, msg) == [s EXCEPT !.onErrorCalls = Append(@, msg)]
CallOnResult(s, r) == [s EXCEPT !.onResultCalls = Append(@, r)]

\* ------------------------------------------------- the recognition engine
Inst == 1..MaxInst
Mgrs == 1..MaxMgr

\* event.error of a SpeechRecognitionErrorEvent; "bad-grammar" stands for
\* every code the handlers have no case for.
ErrorKinds == {"no-speech", "network", "audio-capture", "not-allowed",
               "service-not-allowed", "aborted", "language-not-supported",
               "bad-grammar"}

Confidences == {0, 92}      \* result[0].confidence in percent; 0 is falsy

\* one SpeechRecognitionResult: result[0].transcript, result.isFinal,
\* result[0].confidence
Results == [transcript : Fragments, isFinal : BOOLEAN, confidence : Confidences]

\* the events of one result
SingleBatches == {<<r>> : r \in {x \in Results : x.confidence = 92 /\ x.transcript # <<"b">>}}

\* the results of one event from event.resultIndex on
Batches ==
    UNION {[1..n -> {r \in Results : r.confidence = 92 /\ r.transcript \in {<<"a">>, <<"b">>}}] :
               n \in 1..MaxBatch}

\* the events the engine delivers where the text does not matter: one interim
\* or one final result
PlainBatches == {<<[transcript |-> <<"a">>, isFinal |-> f, confidence |-> 92]>> : f \in BOOLEAN}

\* recognition.start(): an object that was started and has not ended throws
\* InvalidStateError
CanStart(st) == st = "idle"

\* recognition.stop(): the end event follows later
EngStop(st) == IF st \in {"starting", "running"} THEN "stopping" ELSE st

\* ----------------------------------------------------------------- timers
\* A timer is [kind, inst, delay, fresh, held, cut]; held says that
\* retryTimeoutRef holds its handle, cut that the caller has called stop()
\* since it was scheduled.  Timers are kept in scheduling order; one may expire
\* only when no timer scheduled before it has a delay that is not longer.
Timer(kind, i, delay) ==
    [kind |-> kind, inst |-> i, delay |-> delay, fresh |-> TRUE, held |-> FALSE,
     cut |-> FALSE]

MayExpire(timers, j) == \A i \in 1..(j - 1) : timers[i].delay > timers[j].delay

RemoveAt(seq, j) == SubSeq(seq, 1, j - 1) \o SubSeq(seq, j + 1, Len(seq))

\* setTimeout(callback, delay).  The handlers of one dispatch run at the same
\* instant, so among the callbacks they schedule (the fresh ones) the shorter
\* delay comes first.
RECURSIVE Schedule(_, _)
Schedule(timers, t) ==
    LET n == Len(timers) IN
    IF n > 0 /\ timers[n].fresh /\ timers[n].delay > t.delay
    THEN Append(Schedule(SubSeq(timers, 1, n - 1), t), timers[n])
    ELSE Append(timers, t)

\* the dispatch is over
Settle(timers) == [j \in 1..Len(timers) |-> [timers[j] EXCEPT !.fresh = FALSE]]

\* an engine object nothing refers to any more is dropped
Collect(eng, ref, timers) ==
    [i \in DOMAIN eng |->
        IF eng[i] = "idle" /\ ref # i /\ \A j \in 1..Len(timers) : timers[j].inst # i
        THEN "none" ELSE eng[i]]

\* the objects free for a new recognition once the hook lets go of its own
FreeInst(s) == {i \in DOMAIN s.eng : Collect(s.eng, 0, s.timers)[i] = "none"}
NewInst(s) == CHOOSE i \in FreeInst(s) : \A k \in FreeInst(s) : i <= k

\* the state a handler leaves, once its dispatch is over
EndDispatch(s) ==
    LET timers == Settle(s.timers) IN
    [s EXCEPT !.timers = timers, !.eng = Collect(s.eng, s.recognitionRef, timers)]

\* ------------------------------------------------ useWebSpeechRecognition
MsgWebUnsupported == "web: browser does not support the Web Speech API"
MsgOffline == "web: not connected to the network"
MsgMicDenied == "web: microphone permission is denied"
MsgMicNeeded == "web: microphone permission is needed"
MsgAudioCapture == "web: access to the microphone was refused"
MsgNotAllowed == "web: speech recognition permission was refused"
MsgServiceNotAllowed == "web: speech recognition service is unavailable"

\* const errorMessage = `音声認識エラー: ${event.error}`
WebErrorMessage(e) ==
    [k \in ErrorKinds |->
        CASE k = "no-speech" -> "web: recognition error: no-speech"
          [] k = "network" -> "web: recognition error: network"
          [] k = "audio-capture" -> "web: recognition error: audio-capture"
          [] k = "not-allowed" -> "web: recognition error: not-allowed"
          [] k = "service-not-allowed" -> "web: recognition error: service-not-allowed"
          [] k = "aborted" -> "web: recognition error: aborted"
          [] k = "language-not-supported" -> "web: recognition error: language-not-supported"
          [] OTHER -> "web: recognition error: bad-grammar"][e]

\* checkSupport(): what it returns, and the hook as it leaves it
WebCheckSupport(s) ==
    IF ~hasSpeechRecognition THEN [ok |-> FALSE, s |-> s]
    ELSE IF ~online THEN [ok |-> FALSE, s |-> [s EXCEPT !.error = MsgOffline]]
    ELSE [ok |-> TRUE, s |-> s]

\* start(): checkSupport(), the answer of checkPermissions(), and the new
\* recognition
WebStart(s, granted) ==
    LET c == WebCheckSupport(s) IN
    IF ~c.ok
    THEN CallOnError([c.s EXCEPT !.error = MsgWebUnsupported], MsgWebUnsupported)
    ELSE IF ~granted
    THEN CallOnError([c.s EXCEPT !.error = MsgMicDenied], MsgMicNeeded)
    ELSE IF s.isListening
    THEN c.s
    ELSE LET s2 == [c.s EXCEPT !.error = Null, !.transcript = <<>>,
                               !.interimTranscript = <<>>, !.finalTranscriptRef = <<>>,
                               !.retryCountRef = 0]
             c2 == WebCheckSupport(s2)
         IN  IF ~c2.ok
             THEN c2.s
             ELSE LET i == NewInst(s2) IN
                  [c2.s EXCEPT !.recognitionRef = i, !.eng[i] = "starting"]

\* stop()
WebStop(s) ==
    LET s1 == IF s.recognitionRef # 0
              THEN [s EXCEPT !.eng[s.recognitionRef] = EngStop(@), !.recognitionRef = 0]
              ELSE s
    IN  [s1 EXCEPT !.isListening = FALSE]

\* recognition.onstart
WebOnStart(s, i) ==
    [s EXCEPT !.isListening = TRUE, !.error = Null, !.retryCountRef = 0]

\* recognition.onend
WebOnEnd(s, i) ==
    LET s1 == [s EXCEPT !.isListening = FALSE] IN
    IF s.continuous /\ s.recognitionRef # 0 /\ s.retryCountRef < maxRetries
    THEN [s1 EXCEPT !.timers = Schedule(@, Timer("auto", i, autoRestartDelay))]
    ELSE s1

\* the delay of the retry after a network error
WebRetryDelay(retryCount) == retryDelayRef * retryCount

\* recognition.onerror
WebOnError(s, i, e) ==
    CASE e = "no-speech" -> s
      [] e = "network" ->
            IF s.retryCountRef < maxRetries
            THEN LET n == s.retryCountRef + 1 IN
                 [s EXCEPT !.retryCountRef = n,
                           !.timers = Schedule(@, Timer("net", i, WebRetryDelay(n)))]
            ELSE [s EXCEPT !.isListening = FALSE]
      [] e = "audio-capture" ->
            [CallOnError(s, MsgAudioCapture) EXCEPT !.error = MsgAudioCapture,
                                                    !.isListening = FALSE]
      [] e = "not-allowed" ->
            [CallOnError(s, MsgNotAllowed) EXCEPT !.error = MsgNotAllowed,
                                                  !.isListening = FALSE]
      [] e = "service-not-allowed" ->
            [CallOnError(s, MsgServiceNotAllowed) EXCEPT !.error = MsgServiceNotAllowed,
                                                         !.isListening = FALSE]
      [] OTHER ->
            [CallOnError(s, WebErrorMessage(e)) EXCEPT !.error = WebErrorMessage(e),
                                                       !.isListening = FALSE]

\* the 100 ms callback of onend; a throw of recognition.start() is not caught
WebAutoRestart(s, i) ==
    IF s.recognitionRef # 0 /\ CanStart(s.eng[i])
    THEN [s EXCEPT !.eng[i] = "starting"]
    ELSE s

\* the retry callback of onerror 'network'
WebNetworkRetry(s, i) ==
    IF s.recognitionRef # 0 /\ s.continuous
    THEN IF CanStart(s.eng[i])
         THEN [s EXCEPT !.error = Null, !.eng[i] = "starting"]
         ELSE CallOnError([s EXCEPT !.error = WebErrorMessage("network")],
                          WebErrorMessage("network"))
    ELSE s

\* recognition.onresult, the loop over event.results from event.resultIndex
RECURSIVE WebResultLoop(_, _, _)
WebResultLoop(s, results, interimText) ==
    IF results = <<>>
    THEN [s |-> s, interimText |-> interimText]
    ELSE LET r == Head(results) IN
         IF r.isFinal
         THEN LET finalText == s.finalTranscriptRef \o r.transcript \o <<" ">> IN
              WebResultLoop(
                  CallOnResult([s EXCEPT !.finalTranscriptRef = finalText,
                                         !.transcript = finalText],
                               [text |-> r.transcript, confidence |-> r.confidence,
                                isFinal |-> TRUE, speakerTag |-> 0]),
                  Tail(results), interimText)
         ELSE WebResultLoop(s, Tail(results), interimText \o r.transcript)

\* recognition.onresult, were it to append to the interim transcript
WebOnResultAppending(s, results) ==
    LET l == WebResultLoop(s, results, <<>>) IN
    [l.s EXCEPT !.interimTranscript = s.interimTranscript \o l.interimText]

\* recognition.onresult
WebOnResult(s, results) ==
    LET l == WebResultLoop(s, results, <<>>)
        s1 == [l.s EXCEPT !.interimTranscript = l.interimText]
    IN  IF l.interimText # <<>> /\ s.interimResults
        THEN CallOnResult(s1, [text |-> l.interimText, confidence |-> 0,
                               isFinal |-> FALSE, speakerTag |-> 0])
        ELSE s1

\* ------------------------------------------------ SpeechRecognitionManager
\* (the manager with fallbackMode, the one useSpeechRecognition drives)
MgrMsgDefault == "mgr: recognition error"
MgrMsgNetwork == "mgr: network error, check the internet connection"
MgrMsgNotAllowed == "mgr: microphone permission is needed"
MgrMsgNoSpeech == "mgr: no speech was detected"
MgrMsgAudioCapture == "mgr: audio capture error, the microphone cannot be used"
MgrMsgServiceNotAllowed == "mgr: speech recognition service is unavailable"
MgrMsgAborted == "mgr: speech recognition was aborted"
MgrMsgLanguage == "mgr: the language is not supported"
MgrMsgOther == "mgr: recognition error: bad-grammar"
MgrMsgStartFailed == "mgr: could not start speech recognition"
SrMsgUnsupported == "sr: browser does not support speech recognition"
SrMsgRetryFailed == "sr: retrying speech recognition failed"

\* the switch of recognition.onerror: the message and shouldTryFallback
MgrClassify(e) ==
    CASE e = "network" -> [msg |-> MgrMsgNetwork, shouldTryFallback |-> TRUE]
      [] e = "not-allowed" -> [msg |-> MgrMsgNotAllowed, shouldTryFallback |-> FALSE]
      [] e = "no-speech" -> [msg |-> MgrMsgNoSpeech, shouldTryFallback |-> TRUE]
      [] e = "audio-capture" -> [msg |-> MgrMsgAudioCapture, shouldTryFallback |-> TRUE]
      [] e = "service-not-allowed" -> [msg |-> MgrMsgServiceNotAllowed, shouldTryFallback |-> TRUE]
      [] e = "aborted" -> [msg |-> MgrMsgAborted, shouldTryFallback |-> FALSE]
      [] e = "language-not-supported" -> [msg |-> MgrMsgLanguage, shouldTryFallback |-> FALSE]
      [] OTHER -> [msg |-> MgrMsgOther, shouldTryFallback |-> TRUE]


\* a manager: the state of its engine, this.isListening, this.fallbackAttempts
\* and the configuration its engine was created with
NoMgr ==
    [eng |-> "none", isListening |-> FALSE, fallbackAttempts |-> 0,
     continuous |-> FALSE, interimResults |-> FALSE]

\* a manager nothing refers to any more is dropped
SrCollect(mgr, ref, timers) ==
    [m \in DOMAIN mgr |->
        IF mgr[m].eng = "idle" /\ ref # m /\ \A j \in 1..Len(timers) : timers[j].inst # m
        THEN NoMgr ELSE mgr[m]]

FreeMgr(s) == {m \in DOMAIN s.mgr : SrCollect(s.mgr, 0, s.timers)[m].eng = "none"}
NewMgr(s) == CHOOSE m \in FreeMgr(s) : \A k \in FreeMgr(s) : m <= k

SrEndDispatch(s) ==
    LET timers == Settle(s.timers) IN
    [s EXCEPT !.timers = timers, !.mgr = SrCollect(s.mgr, s.recognitionRef, timers)]

\* errorMessage.includes('ネットワーク')
IncludesNetwork(msg) == msg = MgrMsgNetwork

\* an error of the hook: the message and, in a retry, its attempt number
SrError(msg, attempt) == [msg |-> msg, attempt |-> attempt]
SrNull == SrError(Null, 0)

\* Math.pow(2, n)
RECURSIVE Pow2(_)
Pow2(n) == IF n <= 0 THEN 1 ELSE 2 * Pow2(n - 1)

\* the delay of the retry of useSpeechRecognition
SrRetryDelay(retryCount) == retryDelay * Pow2(retryCount - 1)

\* the defaults of the manager's config that the hook leaves alone
fallbackMode == TRUE
shortSession == FALSE

\* initializeRecognition, were it to configure every engine as the first one
InitializeRecognitionAsConfigured(s, m) ==
    [s EXCEPT !.mgr[m].continuous = s.continuous,
              !.mgr[m].interimResults = s.interimResults]

\* initializeRecognition: the configuration of the engine it creates
InitializeRecognition(s, m) ==
    LET fallback == fallbackMode /\ s.mgr[m].fallbackAttempts > 0 IN
    [s EXCEPT !.mgr[m].continuous = ~shortSession /\ (IF fallback THEN FALSE ELSE s.continuous),
              !.mgr[m].interimResults =
                  ~shortSession /\ (IF fallback THEN FALSE ELSE s.interimResults)]

\* new SpeechRecognitionManager(...).start(): initializeRecognition() and
\* recognition.start() on the new object
MgrStart(s, m) ==
    LET made == [s EXCEPT !.mgr[m] = [NoMgr EXCEPT !.eng = "idle"]] IN
    [InitializeRecognition(made, m) EXCEPT !.mgr[m].eng = "starting"]

\* manager.stop() and manager.abort(): both end the engine, if it has started
MgrStop(s, m) ==
    IF s.mgr[m].isListening THEN [s EXCEPT !.mgr[m].eng = EngStop(@)] ELSE s

\* handleStart
SrHandleStart(s) == [s EXCEPT !.isListening = TRUE, !.error = SrNull, !.retryCountRef = 0]

\* handleEnd
SrHandleEnd(s) == [s EXCEPT !.isListening = FALSE]

\* handleResult
SrHandleResult(s, r) ==
    CallOnResult(
        IF r.isFinal
        THEN [s EXCEPT !.transcript = @ \o r.transcript \o <<" ">>, !.interimTranscript = <<>>]
        ELSE [s EXCEPT !.interimTranscript = r.transcript],
        [text |-> r.transcript, confidence |-> r.confidence, isFinal |-> r.isFinal,
         speakerTag |-> 0])

\* handleError
SrHandleError(s, msg, canRetry) ==
    IF canRetry /\ s.retryCountRef < srMaxRetries /\ IncludesNetwork(msg)
    THEN LET n == s.retryCountRef + 1
             older == [j \in 1..Len(s.timers) |-> [s.timers[j] EXCEPT !.held = FALSE]]
         IN  [s EXCEPT !.retryCountRef = n,
                       !.error = SrError(msg, n),
                       !.timers = Schedule(older,
                                           [Timer("retry", 0, SrRetryDelay(n)) EXCEPT !.held = TRUE])]
    ELSE CallOnError([s EXCEPT !.error = SrError(msg, 0), !.isListening = FALSE,
                               !.retryCountRef = 0],
                     msg)

\* the retry callback of handleError
SrRetry(s) ==
    LET s1 == IF s.recognitionRef # 0 THEN MgrStop(s, s.recognitionRef) ELSE s
        m == NewMgr(s1)
    IN  [MgrStart(s1, m) EXCEPT !.recognitionRef = m, !.error = SrNull]

\* start()
SrStart(s) ==
    IF ~s.isSupported THEN SrHandleError(s, SrMsgUnsupported, FALSE)
    ELSE IF s.isListening THEN s
    ELSE LET m == NewMgr(s) IN [MgrStart(s, m) EXCEPT !.recognitionRef = m]

\* stop()
SrStop(s) ==
    LET kept == SelectSeq(s.timers, LAMBDA t : ~t.held)
        s1 == [s EXCEPT !.timers = kept, !.retryCountRef = 0]
    IN  IF s.recognitionRef # 0 /\ s.isListening THEN MgrStop(s1, s.recognitionRef) ELSE s1

\* recognition.onstart of the manager
MgrOnStart(s, m) == SrHandleStart([s EXCEPT !.mgr[m].isListening = TRUE])

\* recognition.onend of the manager
MgrOnEnd(s, m) == SrHandleEnd([s EXCEPT !.mgr[m].isListening = FALSE])

\* recognition.onerror of the manager
MgrOnError(s, m, e) ==
    LET c == MgrClassify(e) IN
    IF c.shouldTryFallback /\ s.mgr[m].fallbackAttempts < maxFallbackAttempts
    THEN [s EXCEPT !.mgr[m].fallbackAttempts = @ + 1,
                   !.timers = Schedule(@, [Timer("fallback", m, fallbackDelay) EXCEPT !.held = FALSE])]
    ELSE SrHandleError([s EXCEPT !.mgr[m].fallbackAttempts = 0], c.msg, TRUE)

\* the fallback callback of recognition.onerror: a new recognition, started
MgrFallback(s, m) == [InitializeRecognition(s, m) EXCEPT !.mgr[m].eng = "starting"]

\* recognition.onresult of the manager
RECURSIVE MgrResultLoop(_, _)
MgrResultLoop(s, results) ==
    IF results = <<>> THEN s
    ELSE MgrResultLoop(SrHandleResult(s, Head(results)), Tail(results))

MgrOnResult(s, m, results) == MgrResultLoop([s EXCEPT !.mgr[m].fallbackAttempts = 0], results)

\* ------------------------------------- the responses of /api/deepgram
\* speakerTag of a segment: the current user, and one past the five names
SpeakerTags == {1, 6}

\* the tags the speakers map is kept for
Tags == SpeakerTags \cup {2}

\* one element of data.result.speakers: the current user says "a", the other
\* speaker's text is blank
Segments == {[speakerTag |-> t, text |-> IF t = 1 THEN <<"a">> ELSE <<" ">>] : t \in SpeakerTags}

\* What fetch('/api/deepgram') and response.json() come to: the request fails
\* (kind "exception"), the status is not ok ("http-error"), the body is not
\* JSON ("bad-json"), or the body parses ("body") to
\* { success, result: { speakers?, transcript, confidence } }.
Body(success, hasSpeakers, speakers, transcript, confidence) ==
    [kind |-> "body", success |-> success, hasSpeakers |-> hasSpeakers,
     speakers |-> speakers, transcript |-> transcript, confidence |-> confidence]

Failure(kind) == [Body(FALSE, FALSE, <<>>, <<>>, 0) EXCEPT !.kind = kind]

FailureKinds == {"exception", "http-error", "bad-json"}

Responses ==
    {Failure(k) : k \in FailureKinds}
    \cup {Body(FALSE, FALSE, <<>>, <<>>, 0)}
    \cup {Body(TRUE, FALSE, <<>>, t, c) : t \in Fragments, c \in Confidences}
    \cup {Body(TRUE, TRUE, sp, <<"a">>, 0) :
              sp \in UNION {[1..n -> Segments] : n \in 0..MaxBatch}}

\* the responses where the text does not matter
PlainResponses ==
    {Failure(k) : k \in FailureKinds}
    \cup {Body(FALSE, FALSE, <<>>, <<>>, 0), Body(TRUE, FALSE, <<>>, <<"a">>, 92),
          Body(TRUE, FALSE, <<>>, <<>>, 92),
          Body(TRUE, TRUE, <<[speakerTag |-> 1, text |-> <<"a">>]>>, <<>>, 0)}

\* the segments of the responses where the speakers matter: the text goes
\* with the tag
SpeakerSegments == {[speakerTag |-> t, text |-> IF t = 1 THEN <<"a">> ELSE <<"b">>] : t \in Tags}

SpeakerResponses ==
    {Failure("exception"), Body(TRUE, FALSE, <<>>, <<"a">>, 92)}
    \cup {Body(TRUE, TRUE, sp, <<>>, 92) :
              sp \in UNION {[1..n -> SpeakerSegments] : n \in 1..MaxBatch}}

\* no response yet
NoResponse == Body(FALSE, FALSE, <<>>, <<>>, 0)

\* data.result.confidence || 0.8
Confidence(c) == IF c = 0 THEN defaultConfidence ELSE c

\* speakerNames[speakerTag - 1] || `話者${speakerTag}`
SpeakerName(speakerTag) ==
    IF speakerTag \in 1..5
    THEN <<"speaker A", "speaker B", "speaker C", "speaker D", "speaker E">>[speakerTag]
    ELSE "speaker " \o ToString(speakerTag)

\* generateSpeakerName, were it to store the next name of the pool on every call
GenerateSpeakerNameOverwriting(s, speakerTag) ==
    [s EXCEPT !.speakers[speakerTag] =
         SpeakerName(1 + Cardinality({t \in Tags : s.speakers[t] # Null}))]

\* generateSpeakerName: the name is kept under the tag unless one is there
GenerateSpeakerName(s, speakerTag) ==
    IF s.speakers[speakerTag] # Null THEN s
    ELSE [s EXCEPT !.speakers[speakerTag] = SpeakerName(speakerTag)]

\* the fragment of a speaker segment, and of a flat transcript
SegmentResult(seg, c) ==
    [text |-> seg.text, isFinal |-> TRUE, confidence |-> Confidence(c),
     hasSpeaker |-> TRUE, speakerTag |-> seg.speakerTag,
     speakerName |-> SpeakerName(seg.speakerTag)]

FlatResult(text, c) ==
    [text |-> text, isFinal |-> TRUE, confidence |-> Confidence(c),
     hasSpeaker |-> FALSE, speakerTag |-> 0, speakerName |-> Null]

\* ------------------------------------------- useExternalSpeechRecognition
MsgExtUnsupported == "ext: this browser does not support recording"
MsgExtStart == "ext: recording start error"

ExtErrorMessage(kind) == "ext: recognition error: " \o kind

\* data.result.speakers.forEach of sendAudioToAPI, were it to go from the last
\* segment to the first
RECURSIVE ExtSegmentsReversed(_, _, _)
ExtSegmentsReversed(s, speakers, c) ==
    IF speakers = <<>> THEN s
    ELSE LET seg == speakers[Len(speakers)]
             s1 == CallOnResult(GenerateSpeakerName(s, seg.speakerTag), SegmentResult(seg, c))
         IN  ExtSegmentsReversed([s1 EXCEPT !.transcript = @ \o seg.text \o <<" ">>],
                                 SubSeq(speakers, 1, Len(speakers) - 1), c)

\* data.result.speakers.forEach of sendAudioToAPI
RECURSIVE ExtSegments(_, _, _)
ExtSegments(s, speakers, c) ==
    IF speakers = <<>> THEN s
    ELSE LET seg == Head(speakers)
             s1 == CallOnResult(GenerateSpeakerName(s, seg.speakerTag), SegmentResult(seg, c))
         IN  ExtSegments([s1 EXCEPT !.transcript = @ \o seg.text \o <<" ">>],
                         Tail(speakers), c)

\* sendAudioToAPI, from the response on
ExtSendAudioToAPI(s, r) ==
    IF r.kind \in FailureKinds
    THEN CallOnError([s EXCEPT !.error = ExtErrorMessage(r.kind)], ExtErrorMessage(r.kind))
    ELSE IF ~r.success THEN s
    ELSE IF r.hasSpeakers THEN ExtSegments(s, r.speakers, r.confidence)
    ELSE IF r.transcript # <<>>
    THEN CallOnResult([s EXCEPT !.transcript = @ \o r.transcript \o <<" ">>],
                      FlatResult(r.transcript, r.confidence))
    ELSE s

\* startRecording, up to its await of getUserMedia
ExtStartRecording(s) == [s EXCEPT !.pc = "asking"]

\* startRecording, from the answer of getUserMedia on
ExtGotUserMedia(s, granted) ==
    IF granted
    THEN LET older == [j \in 1..Len(s.timers) |-> [s.timers[j] EXCEPT !.held = FALSE]] IN
         [s EXCEPT !.pc = "idle", !.rec = "recording", !.tracks = TRUE, !.chunks = 0,
                   !.error = Null,
                   !.cycles = IF @ < MaxCycles THEN @ + 1 ELSE @,
                   !.timers = Schedule(older,
                                       [Timer("duration", 0, recordingDuration)
                                           EXCEPT !.held = TRUE])]
    ELSE CallOnError([s EXCEPT !.pc = "idle", !.error = MsgExtStart, !.isListening = FALSE],
                     MsgExtStart)

\* the callback of recordingIntervalRef
ExtDuration(s) == IF s.rec = "recording" THEN [s EXCEPT !.rec = "stopping"] ELSE s

\* what mediaRecorder.onstop does once the upload, if any, is over
ExtAfterSend(s) ==
    LET s1 == [s EXCEPT !.pc = "idle", !.tracks = FALSE] IN
    IF s.continuous /\ s.seen
    THEN [s1 EXCEPT !.timers = Schedule(@, Timer("restart", 0, restartDelay))]
    ELSE s1

\* ondataavailable with the recorded data, then mediaRecorder.onstop up to its
\* await of sendAudioToAPI
ExtOnStop(s, size) ==
    LET s1 == [s EXCEPT !.rec = "inactive", !.chunks = IF size > 0 THEN @ + 1 ELSE @] IN
    IF s1.chunks > 0 THEN [s1 EXCEPT !.pc = "uploading"] ELSE ExtAfterSend(s1)

\* mediaRecorder.onstop from the end of sendAudioToAPI on
ExtUploaded(s, r) == ExtAfterSend(ExtSendAudioToAPI(s, r))

\* start(); startRecording closes over the isListening of the render start()
\* comes from
ExtStart(s) ==
    IF ~s.isSupported
    THEN CallOnError([s EXCEPT !.error = MsgExtUnsupported], MsgExtUnsupported)
    ELSE IF s.isListening THEN s
    ELSE ExtStartRecording([s EXCEPT !.error = Null, !.isListening = TRUE,
                                     !.seen = s.isListening])

\* stop()
ExtStop(s) ==
    [s EXCEPT !.isListening = FALSE,
              !.timers = SelectSeq(@, LAMBDA t : ~t.held),
              !.rec = IF @ = "recording" THEN "stopping" ELSE @]

\* ------------------------------------------ useStreamingSpeechRecognition
MsgStrmUnsupported == "strm: this browser does not support streaming recognition"
MsgStrmStart == "strm: streaming recognition start error"

\* data.result.speakers.forEach of sendAudioChunk, were it to go from the last
\* segment to the first
RECURSIVE StrmSegmentsReversed(_, _, _)
StrmSegmentsReversed(s, speakers, c) ==
    IF speakers = <<>> THEN s
    ELSE LET seg == speakers[Len(speakers)] IN
         StrmSegmentsReversed(CallOnResult(GenerateSpeakerName(s, seg.speakerTag),
                                           SegmentResult(seg, c)),
                              SubSeq(speakers, 1, Len(speakers) - 1), c)

\* data.result.speakers.forEach of sendAudioChunk
RECURSIVE StrmSegments(_, _, _)
StrmSegments(s, speakers, c) ==
    IF speakers = <<>> THEN s
    ELSE LET seg == Head(speakers) IN
         StrmSegments(CallOnResult(GenerateSpeakerName(s, seg.speakerTag),
                                   SegmentResult(seg, c)),
                      Tail(speakers), c)

\* data.result.speakers.map(s => s.text).join(' ')
RECURSIVE JoinTexts(_)
JoinTexts(speakers) ==
    IF speakers = <<>> THEN <<>>
    ELSE IF Len(speakers) = 1 THEN speakers[1].text
    ELSE speakers[1].text \o <<" ">> \o JoinTexts(Tail(speakers))

\* sendAudioChunk up to its await of fetch
StrmSendAudioChunk(s) ==
    IF s.chunks = 0 THEN s
    ELSE [s EXCEPT !.chunks = 0, !.inflight = @ + 1, !.sent = s.sessionIdRef]

\* sendAudioChunk, from the response on
StrmResponse(s, r) ==
    LET s1 == [s EXCEPT !.inflight = @ - 1] IN
    IF r.kind \in FailureKinds \/ ~r.success THEN s1
    ELSE IF r.hasSpeakers
    THEN [StrmSegments(s1, r.speakers, r.confidence)
             EXCEPT !.transcript = @ \o JoinTexts(r.speakers) \o <<" ">>]
    ELSE IF r.transcript # <<>>
    THEN CallOnResult([s1 EXCEPT !.transcript = @ \o r.transcript \o <<" ">>],
                      FlatResult(r.transcript, r.confidence))
    ELSE s1

\* `session-${Date.now()}-${Math.random()...}`: an identifier no earlier
\* session has; the identifiers are numbered in the order they are generated,
\* 0 standing for the empty string sessionIdRef starts with
NewSessionId(s) == s.sessions + 1

\* startStreamingRecognition up to its await, were it to keep the identifier
\* sessionIdRef holds
StrmStartStreamingKeepingId(s) == [s EXCEPT !.error = Null, !.pc = "asking"]

\* startStreamingRecognition, up to its await of getUserMedia
StrmStartStreaming(s) ==
    [s EXCEPT !.error = Null, !.sessionIdRef = NewSessionId(s), !.sessions = @ + 1,
              !.pc = "asking"]

\* startStreamingRecognition, from the answer of getUserMedia on
StrmGotUserMedia(s, granted) ==
    IF granted
    THEN [s EXCEPT !.pc = "idle", !.rec = "recording", !.tracks = TRUE, !.chunks = 0,
                   !.interval = TRUE]
    ELSE CallOnError([s EXCEPT !.pc = "idle", !.error = MsgStrmStart, !.isListening = FALSE],
                     MsgStrmStart)

\* ondataavailable
StrmData(s, size) == IF size > 0 THEN [s EXCEPT !.chunks = @ + 1] ELSE s

\* the callback of setInterval
StrmTick(s) == IF ~s.seen THEN s ELSE StrmSendAudioChunk(s)

\* start(); startStreamingRecognition closes over the isListening of the
\* render start() comes from
StrmStart(s) ==
    IF ~s.isSupported
    THEN CallOnError([s EXCEPT !.error = MsgStrmUnsupported], MsgStrmUnsupported)
    ELSE IF s.isListening THEN s
    ELSE StrmStartStreaming([s EXCEPT !.error = Null, !.interimTranscript = <<>>,
                                      !.isListening = TRUE, !.seen = s.isListening])

\* stop()
StrmStop(s) ==
    LET s1 == [s EXCEPT !.isListening = FALSE, !.interimTranscript = <<>>,
                        !.interval = FALSE,
                        !.rec = IF @ \in {"none", "inactive"} THEN @ ELSE "stopping",
                        !.tracks = FALSE]
    IN  IF s1.chunks > 0 THEN StrmSendAudioChunk(s1) ELSE s1

\* -------------------------------------------- useRealtimeSpeechRecognition
MsgRtUnsupported == "rt: this browser does not support realtime recognition"
MsgRtStart == "rt: realtime recognition start error"
MsgRtConnection == "rt: connection error"
MsgRtServer == "rt: error reported by the server"

\* What JSON.parse(event.data) comes to: it throws ("bad-json"), or gives
\* { type, speakers, transcript, is_final, confidence, error }.
Message(type, speakers, transcript, is_final, confidence) ==
    [type |-> type, speakers |-> speakers, transcript |-> transcript,
     is_final |-> is_final, confidence |-> confidence]

Messages ==
    {Message(t, <<>>, <<>>, FALSE, 0) : t \in {"bad-json", "error", "ping"}}
    \cup {Message("transcript", <<>>, t, f, c) :
              t \in Fragments \ {<<" ">>}, f \in BOOLEAN, c \in Confidences}
    \cup {Message("transcript", <<seg>>, <<"b">>, f, 92) : seg \in Segments, f \in BOOLEAN}

\* the messages where the speakers matter
SpeakerMessages ==
    {Message("transcript", <<>>, <<"a">>, TRUE, 92)}
    \cup {Message("transcript", sp, <<>>, TRUE, 92) :
              sp \in UNION {[1..n -> SpeakerSegments] : n \in 1..MaxBatch}}

\* data.speakers.forEach of onmessage
RECURSIVE RtSegments(_, _, _, _)
RtSegments(s, speakers, is_final, c) ==
    IF speakers = <<>> THEN s
    ELSE LET seg == Head(speakers) IN
         RtSegments(CallOnResult(GenerateSpeakerName(s, seg.speakerTag),
                                 [SegmentResult(seg, c) EXCEPT !.isFinal = is_final]),
                    Tail(speakers), is_final, c)

\* websocket.onmessage
RtOnMessage(s, msg) ==
    IF msg.type = "transcript"
    THEN IF Len(msg.speakers) > 0
         THEN RtSegments(s, msg.speakers, msg.is_final, msg.confidence)
         ELSE IF msg.transcript # <<>>
         THEN IF msg.is_final
              THEN CallOnResult([s EXCEPT !.transcript = @ \o msg.transcript \o <<" ">>],
                                [FlatResult(msg.transcript, msg.confidence)
                                    EXCEPT !.isFinal = TRUE])
              ELSE [s EXCEPT !.interimTranscript = msg.transcript]
         ELSE s
    ELSE IF msg.type = "error"
    THEN CallOnError([s EXCEPT !.error = MsgRtServer], MsgRtServer)
    ELSE s

\* websocket.onopen, onclose and onerror
RtOnOpen(s) == [s EXCEPT !.isConnected = TRUE, !.status = "connected"]
RtOnClose(s) == [s EXCEPT !.isConnected = FALSE, !.status = "disconnected"]
RtOnError(s) ==
    CallOnError([s EXCEPT !.error = MsgRtConnection, !.status = "error"], MsgRtConnection)

\* startRealtimeRecognition, up to its await of getUserMedia
RtStartRealtime(s) == [s EXCEPT !.status = "connecting", !.error = Null, !.pc = "asking"]

\* startRealtimeRecognition, from the answer of getUserMedia on
RtGotUserMedia(s, granted) ==
    IF granted
    THEN [s EXCEPT !.pc = "idle", !.tracks = TRUE, !.ws = "connecting",
                   !.rec = "recording", !.interval = TRUE]
    ELSE CallOnError([s EXCEPT !.pc = "idle", !.error = MsgRtStart, !.status = "error",
                               !.isListening = FALSE],
                     MsgRtStart)

\* the callback of setInterval; sendAudioContinuously hands the recorded
\* chunks to the socket
RtTick(s) == IF ~s.seen THEN [s EXCEPT !.interval = FALSE] ELSE s

\* start(); startRealtimeRecognition closes over the isListening of the render
\* start() comes from
RtStart(s) ==
    IF ~s.isSupported
    THEN CallOnError([s EXCEPT !.error = MsgRtUnsupported], MsgRtUnsupported)
    ELSE IF s.isListening THEN s
    ELSE RtStartRealtime([s EXCEPT !.error = Null, !.interimTranscript = <<>>,
                                   !.isListening = TRUE, !.seen = s.isListening])

\* stop()
RtStop(s) ==
    [s EXCEPT !.isListening = FALSE, !.interimTranscript = <<>>,
              !.rec = IF @ \in {"none", "inactive"} THEN @ ELSE "inactive",
              !.tracks = FALSE,
              !.ws = IF @ \in {"connecting", "open"} THEN "closing" ELSE @,
              !.isConnected = FALSE, !.status = "disconnected"]

\* ------------- MediaRecorderSpeechManager and useMediaRecorderSpeech
\* The record holds the hook's state (isRecording, error, lastRecording) and
\* its manager's fields: mgrIsRecording is this.isRecording, rec the state of
\* this.mediaRecorder, audioStream whether this.audioStream is set, chunks the
\* length of this.recordingChunks.  Beside them: asking, the calls of
\* getUserMedia not yet answered; live, the streams whose tracks are live;
\* orphans, the recorders that record and that nothing refers to; ending, the
\* recorders stopped whose stop event is yet to come.
MsgMrmUnsupported == "mrm: this browser does not support the MediaRecorder API"
MsgMrmMic == "mrm: microphone permission is needed"
MsgMrmTranscript == "mrm: the recording is ready"

\* config.onError of the hook
MrmOnError(s, msg) == CallOnError([s EXCEPT !.error = msg, !.isRecording = FALSE], msg)

\* MediaRecorderSpeechManager.start, up to its await of getUserMedia
MrmManagerStart(s) ==
    IF s.mgrIsRecording THEN s
    ELSE IF ~s.isSupported THEN MrmOnError(s, MsgMrmUnsupported)
    ELSE [s EXCEPT !.asking = @ + 1]

\* MediaRecorderSpeechManager.start, from the answer of getUserMedia on
MrmGotUserMedia(s, granted) ==
    IF granted
    THEN LET older == [j \in 1..Len(s.timers) |-> [s.timers[j] EXCEPT !.held = FALSE]] IN
         [s EXCEPT !.asking = @ - 1, !.audioStream = TRUE, !.live = @ + 1,
                   !.orphans = IF s.rec = "recording" THEN @ + 1 ELSE @,
                   !.rec = "recording", !.chunks = 0, !.mgrIsRecording = TRUE,
                   !.isRecording = TRUE, !.error = Null,
                   !.timers = Schedule(older,
                                       [Timer("duration", 0, mrmRecordingDuration)
                                           EXCEPT !.held = TRUE])]
    ELSE MrmOnError([s EXCEPT !.asking = @ - 1], MsgMrmMic)

\* MediaRecorderSpeechManager.stop
MrmManagerStop(s) ==
    IF ~s.mgrIsRecording \/ s.rec = "none" THEN s
    ELSE [s EXCEPT !.timers = SelectSeq(@, LAMBDA t : ~t.held),
                   !.ending = IF s.rec = "recording" THEN @ + 1 ELSE @,
                   !.rec = "inactive", !.mgrIsRecording = FALSE, !.isRecording = FALSE]

\* MediaRecorderSpeechManager.restart
MrmRestart(s) == IF ~s.audioStream THEN s ELSE MrmManagerStart(s)

\* ondataavailable with the recorded data, then mediaRecorder.onstop:
\* processRecording
MrmProcessRecording(s, size) ==
    LET s1 == [s EXCEPT !.ending = @ - 1, !.chunks = IF size > 0 THEN @ + 1 ELSE @] IN
    IF s1.chunks = 0
    THEN IF s1.autoRestart THEN MrmRestart(s1) ELSE s1
    ELSE LET s2 == CallOnResult(s1, MsgMrmTranscript) IN
         IF s2.autoRestart
         THEN [s2 EXCEPT !.timers = Schedule(@, Timer("restart", 0, mrmRestartDelay))]
         ELSE s2

\* start() of the hook
MrmStart(s) == IF s.isRecording THEN s ELSE MrmManagerStart([s EXCEPT !.error = Null])

\* stop() of the hook
MrmStop(s) ==
    IF s.isRecording THEN [MrmManagerStop(s) EXCEPT !.lastRecording = s.chunks > 0] ELSE s

\* --------------------------------------------------- the transcript pages
Entry(id, speaker, content, isCurrentUser) ==
    [id |-> ToString(id), speaker |-> speaker, content |-> content,
     isCurrentUser |-> isCurrentUser]

\* What a page has been handed, kept beside its state: arrived, the final
\* fragments and the file segments in the order they came.
Arrival(source, text, hasSpeaker, speakerTag) ==
    [source |-> source, text |-> text, hasSpeaker |-> hasSpeaker, speakerTag |-> speakerTag]

\* onResult of webSpeechRecognition, were it to put the new entry first
PresentationOnResultPrepending(p, result) ==
    LET p1 == IF result.isFinal
              THEN [p EXCEPT !.arrived = Append(@, Arrival("live", result.text, FALSE, 0))]
              ELSE p
    IN  IF result.isFinal /\ Trim(result.text) # <<>>
        THEN [p1 EXCEPT !.webSpeechIdCounter = @ + 1,
                        !.transcriptEntries =
                            <<Entry(p.webSpeechIdCounter + 1, "participant",
                                    Trim(result.text), TRUE)>> \o @]
        ELSE p1

\* onResult of webSpeechRecognition, were it to make entries of interim
\* fragments too
PresentationOnResultAnyFragment(p, result) ==
    LET p1 == IF result.isFinal
              THEN [p EXCEPT !.arrived = Append(@, Arrival("live", result.text, FALSE, 0))]
              ELSE p
    IN  IF Trim(result.text) # <<>>
        THEN [p1 EXCEPT !.webSpeechIdCounter = @ + 1,
                        !.transcriptEntries =
                            Append(@, Entry(p.webSpeechIdCounter + 1, "participant",
                                            Trim(result.text), TRUE))]
        ELSE p1

\* onResult of webSpeechRecognition in presentation/[id]/page.tsx
PresentationOnResult(p, result) ==
    LET p1 == IF result.isFinal
              THEN [p EXCEPT !.arrived = Append(@, Arrival("live", result.text, FALSE, 0))]
              ELSE p
    IN  IF result.isFinal /\ Trim(result.text) # <<>>
        THEN [p1 EXCEPT !.webSpeechIdCounter = @ + 1,
                        !.transcriptEntries =
                            Append(@, Entry(p.webSpeechIdCounter + 1, "participant",
                                            Trim(result.text), TRUE))]
        ELSE p1

RECURSIVE PresentationResults(_, _)
PresentationResults(p, results) ==
    IF results = <<>> THEN p
    ELSE PresentationResults(PresentationOnResult(p, Head(results)), Tail(results))

\* `話者${speaker.speakerTag || index + 1} (ファイル分析)`
FileSpeaker(speakerTag, index) ==
    "file speaker " \o ToString(IF speakerTag # 0 THEN speakerTag ELSE index + 1)

\* analysisData.speakers.forEach of handleFileUpload
RECURSIVE FileSegments(_, _, _)
FileSegments(p, speakers, index) ==
    IF speakers = <<>> THEN p
    ELSE LET seg == Head(speakers) IN
         FileSegments(
             [p EXCEPT !.arrived = Append(@, Arrival("file", seg.text, TRUE, seg.speakerTag)),
                       !.webSpeechIdCounter = @ + 1,
                       !.transcriptEntries =
                           Append(@, Entry(p.webSpeechIdCounter + 1,
                                           FileSpeaker(seg.speakerTag, index),
                                           seg.text, FALSE))],
             Tail(speakers), index + 1)

\* handleFileUpload, from the response of /api/gemini-speech on
HandleFileUpload(p, r) ==
    IF r.kind \in FailureKinds \/ ~r.success THEN p
    ELSE IF r.hasSpeakers /\ Len(r.speakers) > 0 THEN FileSegments(p, r.speakers, 0)
    ELSE IF r.transcript # <<>>
    THEN [p EXCEPT !.arrived = Append(@, Arrival("file", r.transcript, FALSE, 0)),
                   !.webSpeechIdCounter = @ + 1,
                   !.transcriptEntries =
                       Append(@, Entry(p.webSpeechIdCounter + 1, "file analysis",
                                       r.transcript, FALSE))]
    ELSE p

\* onResult of speechRecognition in page.tsx, were every entry the current
\* user's
AssistantOnResultAlwaysUser(p, result) ==
    IF result.isFinal
    THEN [p EXCEPT !.arrived = Append(@, Arrival("live", result.text, result.hasSpeaker,
                                                 result.speakerTag)),
                   !.transcriptIdCounter = @ + 1,
                   !.transcriptEntries =
                       Append(@, Entry(p.transcriptIdCounter + 1,
                                       IF result.hasSpeaker THEN result.speakerName ELSE "you",
                                       Trim(result.text), TRUE))]
    ELSE p

\* onResult of speechRecognition in page.tsx (PresentationAssistant)
AssistantOnResult(p, result) ==
    IF result.isFinal
    THEN [p EXCEPT !.arrived = Append(@, Arrival("live", result.text, result.hasSpeaker,
                                                 result.speakerTag)),
                   !.transcriptIdCounter = @ + 1,
                   !.transcriptEntries =
                       Append(@, Entry(p.transcriptIdCounter + 1,
                                       IF result.hasSpeaker THEN result.speakerName ELSE "you",
                                       Trim(result.text),
                                       ~result.hasSpeaker \/ result.speakerTag = 1))]
    ELSE p

RECURSIVE AssistantResults(_, _)
AssistantResults(p, results) ==
    IF results = <<>> THEN p
    ELSE AssistantResults(AssistantOnResult(p, Head(results)), Tail(results))

\* ------------------------------------------------------------ TokenizedText
\* A text is a sequence of characters: Maru stands for the punctuation the
\* fallback splits on (one of the four characters of its regular expression),
\* "." for a character it does not split on.
Maru == "maru"
TokChars == {"a", " ", ".", Maru}

RECURSIVE TextsOfLen(_)
TextsOfLen(n) ==
    IF n = 0 THEN {<<>>}
    ELSE {Append(t, c) : t \in TextsOfLen(n - 1), c \in TokChars}

TokTexts == UNION {TextsOfLen(n) : n \in 0..MaxTokText}

\* text.split(/(\s+|[、。！？])/): the pieces between the separators and the
\* separators themselves, a run of whitespace being one separator; piece is
\* the piece being read, run the run of whitespace being read
RECURSIVE SplitText(_, _, _)
SplitText(text, piece, run) ==
    IF text = <<>>
    THEN IF run # <<>> THEN <<run, <<>>>> ELSE <<piece>>
    ELSE LET c == Head(text) IN
         IF c = " " THEN
             IF run # <<>> THEN SplitText(Tail(text), <<>>, Append(run, c))
             ELSE <<piece>> \o SplitText(Tail(text), <<>>, <<c>>)
         ELSE IF run # <<>> THEN <<run>> \o SplitText(text, <<>>, <<>>)
         ELSE IF c = Maru THEN <<piece, <<c>>>> \o SplitText(Tail(text), <<>>, <<>>)
         ELSE SplitText(Tail(text), Append(piece, c), <<>>)

\* word.trim().length >= 2 && !/^\s+$/.test(word) && !/^[、。！？]+$/.test(word)
IsContent(word) ==
    /\ Len(Trim(word)) >= 2
    /\ ~(word # <<>> /\ \A j \in 1..Len(word) : word[j] = " ")
    /\ ~(word # <<>> /\ \A j \in 1..Len(word) : word[j] = Maru)

\* a TokenizedWord; its reading and baseForm are its surface wherever one is made
Token(surface, pos, isContent) == [surface |-> surface, pos |-> pos, isContent |-> isContent]

Word(surface, isContent) == Token(surface, "", isContent)

\* createFallbackWords
CreateFallbackWords(text) ==
    LET pieces == SplitText(text, <<>>, <<>>) IN
    [j \in 1..Len(pieces) |-> Word(pieces[j], IsContent(pieces[j]))]

\* What fetch('/api/tokenize') comes to: it throws ("network"), the status is
\* not ok ("status"), or a body with success and, if hasWords, words
TokResponses ==
    {[kind |-> k, success |-> FALSE, hasWords |-> FALSE, words |-> <<>>] :
         k \in {"network", "status"}}
    \cup [kind : {"body"}, success : BOOLEAN, hasWords : BOOLEAN,
          words : {<<>>, <<Word(<<"a">>, FALSE)>>}]

\* the response is a success that carries words
TokSucceeded(r) == r.kind = "body" /\ r.success /\ r.hasWords

\* the effect of [text]: the fallback words at once, the request 100 ms later
TokEffect(s) ==
    IF s.text = <<>> \/ Trim(s.text) = <<>> THEN s
    ELSE [s EXCEPT !.words = CreateFallbackWords(s.text), !.shown = "fallback",
                   !.timer = TRUE]

\* tokenizeText up to its await of fetch, the text of its closure in the body
TokTokenize(s) ==
    [s EXCEPT !.timer = FALSE, !.isTokenizing = TRUE, !.request = "inflight",
              !.fetches = Append(@, s.text)]

\* the text prop changes: the cleanup of the effect, then the effect again
TokRender(s, text) == TokEffect([s EXCEPT !.text = text, !.timer = FALSE])

\* the j-th request awaiting its response is answered
TokAnswered(s, j) ==
    [s EXCEPT !.fetches = SubSeq(@, 1, j - 1) \o SubSeq(@, j + 1, Len(@))]

\* tokenizeText from the response on, were a failure to clear the words
TokResponseClearing(s, r) ==
    IF TokSucceeded(r)
    THEN [s EXCEPT !.words = r.words, !.shown = "service", !.isTokenizing = FALSE,
                   !.request = "ok"]
    ELSE [s EXCEPT !.words = <<>>, !.shown = "none", !.isTokenizing = FALSE,
                   !.request = "failed"]

\* tokenizeText from the response on
TokResponse(s, r) ==
    IF TokSucceeded(r)
    THEN [s EXCEPT !.words = r.words, !.shown = "service", !.isTokenizing = FALSE,
                   !.request = "ok"]
    ELSE [s EXCEPT !.isTokenizing = FALSE, !.request = "failed"]

\* ------------------------------------------------------------ /api/tokenize
\* The characters posted: one of each class createPracticalTokens tells apart.
\* Kakko is a bracket, punctuation for the route and not for the fallback of
\* TokenizedText; "." is of no class the route names.
Hira == "hira"
Kata == "kata"
Kanji == "kanji"
Kakko == "kakko"
PostedChars == TokChars \cup {Hira, Kata, Kanji, Kakko, "1"}

RECURSIVE PostedOfLen(_)
PostedOfLen(n) ==
    IF n = 0 THEN {<<>>}
    ELSE {Append(t, c) : t \in PostedOfLen(n - 1), c \in PostedChars}

PostedTexts == UNION {PostedOfLen(n) : n \in 0..MaxPosted}

isHiragana(char) == char = Hira
isKatakana(char) == char = Kata
isKanji(char) == char = Kanji
isAlpha(char) == char = "a"
isNumeric(char) == char = "1"
isPunctuation(char) == char \in {Maru, Kakko, " "}

\* the cascade of tests that sets charType
CharType(char) ==
    IF isPunctuation(char) THEN "punctuation"
    ELSE IF isHiragana(char) THEN "hiragana"
    ELSE IF isKatakana(char) THEN "katakana"
    ELSE IF isKanji(char) THEN "kanji"
    ELSE IF isAlpha(char) THEN "alpha"
    ELSE IF isNumeric(char) THEN "numeric"
    ELSE "other"

\* tokens.push({...}) of the token being read, if there is one
PushToken(loop) ==
    IF loop.currentToken # <<>>
    THEN Append(loop.tokens,
                Token(loop.currentToken, loop.currentType,
                      loop.currentType \in {"kanji", "katakana", "alpha", "numeric"}
                          /\ Len(loop.currentToken) >= 1))
    ELSE loop.tokens

\* the loop of createPracticalTokens, were punctuation joined as the other
\* classes are
RECURSIVE PracticalLoopJoining(_, _)
PracticalLoopJoining(loop, text) ==
    IF text = <<>> THEN loop
    ELSE LET char == Head(text)
             charType == CharType(char)
         IN  IF loop.currentType = charType
             THEN PracticalLoopJoining([loop EXCEPT !.currentToken = Append(@, char)],
                                       Tail(text))
             ELSE PracticalLoopJoining([tokens |-> PushToken(loop), currentToken |-> <<char>>,
                                        currentType |-> charType], Tail(text))

\* the loop of createPracticalTokens over the characters of the text
RECURSIVE PracticalLoop(_, _)
PracticalLoop(loop, text) ==
    IF text = <<>> THEN loop
    ELSE LET char == Head(text)
             charType == CharType(char)
         IN  IF loop.currentType = charType /\ charType # "punctuation"
             THEN PracticalLoop([loop EXCEPT !.currentToken = Append(@, char)], Tail(text))
             ELSE PracticalLoop([tokens |-> PushToken(loop), currentToken |-> <<char>>,
                                 currentType |-> charType], Tail(text))

\* createPracticalTokens
CreatePracticalTokens(text) ==
    PushToken(PracticalLoop([tokens |-> <<>>, currentToken |-> <<>>, currentType |-> ""],
                            text))

\* a response of /api/tokenize
TokenizeResponse(status, success, hasWords, words) ==
    [kind |-> IF status = 200 THEN "body" ELSE "status", success |-> success,
     hasWords |-> hasWords, words |-> words]

\* POST of /api/tokenize
TokenizePost(text) ==
    IF text = <<>> THEN TokenizeResponse(400, FALSE, FALSE, <<>>)
    ELSE TokenizeResponse(200, TRUE, TRUE, CreatePracticalTokens(text))

\* ------------------------------------- the batch transcription routes
\* /api/gemini-speech (part_003) and the Deepgram route with a size check
\* (part_006). A MIME type is the sequence of its pieces, "audio/webm" being
\* <<"audio", "/", "webm">>, so that includes() looks for a piece in it.
geminiMinSize == 8000
geminiMaxSize == 20 * 1024 * 1024
geminiMaxRetries == 3
geminiBackoff == 2000
deepgramMinSize == 100

supportedMimeTypes ==
    <<(<<"audio", "/", "webm">>), (<<"audio", "/", "wav">>), (<<"audio", "/", "mp3">>),
      (<<"audio", "/", "aac">>), (<<"audio", "/", "ogg">>), (<<"audio", "/", "flac">>)>>

\* the types of the payloads posted: none, a generic one, the recorder's, the
\* types the upload form lets through, and a video
MimeTypes ==
    {<<>>, <<"application", "/", "octet-stream">>, <<"audio", "/", "webm">>,
     <<"audio", "/", "webm", ";codecs=opus">>, <<"audio", "/", "wav">>,
     <<"audio", "/", "x-", "wav">>, <<"audio", "/", "mp3">>, <<"audio", "/", "mpeg">>,
     <<"audio", "/", "mp4">>, <<"audio", "/", "ogg">>, <<"video", "/", "webm">>}

\* the sizes of the payloads posted, around every limit of either route
PayloadSizes ==
    {0, deepgramMinSize - 1, deepgramMinSize, geminiMinSize - 1, geminiMinSize,
     geminiMinSize + 1, 8 * 1024 - 1, 8 * 1024, geminiMaxSize - 1, geminiMaxSize,
     geminiMaxSize + 1, 25 * 1024 * 1024}

\* formData.get('audio'): absent, or a file of a size and a type
NoFile == [present |-> FALSE, size |-> 0, type |-> <<>>]
AudioFiles ==
    {NoFile} \cup [present : {TRUE}, size : PayloadSizes, type : MimeTypes]

\* how the provider's call ends
ProviderOutcomes == {"ok", "Unauthorized", "rate limit", "failed"}

\* mimeType.includes(piece)
Includes(mimeType, piece) == \E i \in 1..Len(mimeType) : mimeType[i] = piece

\* type.split('/')[1] of a supported type
Subtype(type) == type[3]

\* the type normalised: none and the generic one count as audio/webm
NormalizedType(type) ==
    IF type = <<>> \/ type = <<"application", "/", "octet-stream">>
    THEN <<"audio", "/", "webm">>
    ELSE type

\* supportedMimeTypes.some(type => mimeType.includes(type.split('/')[1]))
GeminiSupports(mimeType) ==
    \E k \in 1..Len(supportedMimeTypes) : Includes(mimeType, Subtype(supportedMimeTypes[k]))

\* One word of alternatives[0].words: speaker (hasSpeaker is false when the
\* field is missing), punctuated_word and word, <<>> being the empty string or
\* a missing field. The times of the words and of the segments are left out.
Words ==
    [hasSpeaker : {TRUE}, speaker : {0, 1}, punctuated_word : {<<>>, <<"A">>},
     word : {<<>>, <<"a">>}]
    \cup [hasSpeaker : {FALSE}, speaker : {0}, punctuated_word : {<<>>, <<"A">>},
          word : {<<>>, <<"a">>}]

WordLists == UNION {[1..n -> Words] : n \in 0..MaxWords}

\* What transcribeFile resolves to: results.utterances, or none and the words
ProviderResult(hasUtterances, utterances, words) ==
    [hasUtterances |-> hasUtterances, utterances |-> utterances, words |-> words]

NoResult == ProviderResult(FALSE, <<>>, <<>>)

ProviderResults ==
    {ProviderResult(FALSE, <<>>, w) : w \in WordLists}
    \cup {ProviderResult(TRUE, u, <<>>) :
              u \in {<<>>, <<[speaker |-> 0, transcript |-> <<"a">>]>>,
                     <<[speaker |-> 1, transcript |-> <<"a">>],
                       [speaker |-> 0, transcript |-> <<"a">>]>>}}

\* (word.speaker || 0) + 1
WordSpeakerTag(word) == (IF word.hasSpeaker THEN word.speaker ELSE 0) + 1

\* word.punctuated_word || word.word || ''
WordText(word) == IF word.punctuated_word # <<>> THEN word.punctuated_word ELSE word.word

\* speakers.push({ speakerTag, text: currentText.trim(), ... }) under its guard
PushSegment(loop) ==
    IF loop.currentSpeaker # 0 /\ Trim(loop.currentText) # <<>>
    THEN Append(loop.speakers,
                [speakerTag |-> loop.currentSpeaker, text |-> Trim(loop.currentText)])
    ELSE loop.speakers

\* the loop over the words, were it to push a segment for every word
RECURSIVE WordsLoopSplitting(_, _)
WordsLoopSplitting(loop, words) ==
    IF words = <<>> THEN loop
    ELSE LET word == Head(words) IN
         WordsLoopSplitting([currentSpeaker |-> WordSpeakerTag(word),
                             currentText |-> WordText(word),
                             speakers |-> PushSegment(loop)],
                            Tail(words))

\* for (const word of words): currentSpeaker 0 stands for null
RECURSIVE WordsLoop(_, _)
WordsLoop(loop, words) ==
    IF words = <<>> THEN loop
    ELSE LET word == Head(words)
             speakerTag == WordSpeakerTag(word)
         IN  IF loop.currentSpeaker # speakerTag
             THEN WordsLoop([currentSpeaker |-> speakerTag,
                             currentText |-> WordText(word),
                             speakers |-> PushSegment(loop)],
                            Tail(words))
             ELSE WordsLoop([loop EXCEPT !.currentText = @ \o <<" ">> \o WordText(word)],
                            Tail(words))

\* the segments rebuilt from the words, the last one added after the loop
WordsToSpeakers(words) ==
    PushSegment(WordsLoop([currentSpeaker |-> 0, currentText |-> <<>>, speakers |-> <<>>],
                          words))

\* result.results.utterances.map(...)
UtterancesToSpeakers(utterances) ==
    [j \in 1..Len(utterances) |->
        [speakerTag |-> utterances[j].speaker + 1, text |-> utterances[j].transcript]]

\* response.speakers of the Deepgram route
DeepgramSpeakers(result) ==
    IF result.hasUtterances THEN UtterancesToSpeakers(result.utterances)
    ELSE WordsToSpeakers(result.words)

\* the request arrives: what the last request left is gone
Arrive(r, file) ==
    [r EXCEPT !.file = file, !.status = 0, !.providerCalls = 0, !.retryCount = 0,
              !.outcome = "none", !.waits = <<>>,
              !.result = NoResult, !.speakers = <<>>, !.pc = "running"]

\* return NextResponse.json(..., { status })
Respond(r, status) == [r EXCEPT !.status = status, !.pc = "done"]

\* generateContent / transcribeFile is called
CallProvider(r) == [r EXCEPT !.providerCalls = @ + 1, !.pc = "calling"]

\* POST of /api/gemini-speech with the minimum size itself rejected
GeminiPostRejectingMinimum(r) ==
    IF ~r.hasKey THEN Respond(r, 500)
    ELSE IF ~r.file.present THEN Respond(r, 400)
    ELSE IF r.file.size <= geminiMinSize THEN Respond(r, 400)
    ELSE IF r.file.size > geminiMaxSize THEN Respond(r, 400)
    ELSE IF ~GeminiSupports(NormalizedType(r.file.type)) THEN Respond(r, 400)
    ELSE CallProvider(r)

\* POST of /api/gemini-speech, up to its first call of the provider
GeminiPost(r) ==
    IF ~r.hasKey THEN Respond(r, 500)
    ELSE IF ~r.file.present THEN Respond(r, 400)
    ELSE IF r.file.size < geminiMinSize THEN Respond(r, 400)
    ELSE IF r.file.size > geminiMaxSize THEN Respond(r, 400)
    ELSE IF ~GeminiSupports(NormalizedType(r.file.type)) THEN Respond(r, 400)
    ELSE CallProvider(r)

\* await new Promise(resolve => setTimeout(resolve, waitTime)): the route has
\* waited waitTime milliseconds
Wait(r, waitTime) == [r EXCEPT !.waits = Append(@, waitTime)]

\* the call of generateContent ends, with a retry allowed after the last
\* failure as well
GeminiReplyRetryingAgain(r, outcome) ==
    LET got == [r EXCEPT !.outcome = outcome] IN
    IF outcome = "ok" THEN Respond(got, 200)
    ELSE LET retried == [got EXCEPT !.retryCount = @ + 1] IN
         IF retried.retryCount > geminiMaxRetries
         THEN Respond(retried, 500)
         ELSE CallProvider(Wait(retried, Pow2(retried.retryCount) * geminiBackoff))

\* the call of generateContent ends: the response, or a retry after the wait,
\* or the error thrown after the last retry and answered by the outer catch
GeminiReply(r, outcome) ==
    LET got == [r EXCEPT !.outcome = outcome] IN
    IF outcome = "ok" THEN Respond(got, 200)
    ELSE LET retried == [got EXCEPT !.retryCount = @ + 1] IN
         IF retried.retryCount >= geminiMaxRetries
         THEN Respond(retried, 500)
         ELSE CallProvider(Wait(retried, Pow2(retried.retryCount) * geminiBackoff))

\* POST of the Deepgram route, up to its call of the provider
DeepgramPost(r) ==
    IF ~r.hasKey THEN Respond(r, 500)
    ELSE IF ~r.file.present THEN Respond(r, 400)
    ELSE IF r.file.size < deepgramMinSize THEN Respond(r, 400)
    ELSE CallProvider(r)

\* the call of transcribeFile ends: the response, or the catch
DeepgramReply(r, outcome, result) ==
    LET got == [r EXCEPT !.outcome = outcome] IN
    IF outcome = "ok"
    THEN [Respond(got, 200) EXCEPT !.result = result, !.speakers = DeepgramSpeakers(result)]
    ELSE IF outcome = "Unauthorized" THEN Respond(got, 401)
    ELSE IF outcome = "rate limit" THEN Respond(got, 429)
    ELSE Respond(got, 500)

\* ------------------------------------------------------------------ history
\* What the claims count, kept beside the hook's own state: restarts, the
\* engine starts made by timer callbacks in the present run of network failures
\* (a call of the caller, a result, another error or an end without an error
\* begins a new run; it stops counting past the budget); stopped, whether the
\* caller's last call was stop(); late, whether the timer that has just expired
\* was pending at a call of stop().
Count(n, limit) == IF n < limit THEN n + 1 ELSE n

Restarted(s, limit) == [s EXCEPT !.restarts = Count(@, limit)]

Cut(s) == [s EXCEPT !.timers = [j \in 1..Len(@) |-> [@[j] EXCEPT !.cut = TRUE]]]

\* the results of an event: none, interim alone, final alone, or mixed
EventKind(results) ==
    IF results = <<>> THEN "none"
    ELSE IF \A j \in 1..Len(results) : results[j].isFinal THEN "final"
    ELSE IF \A j \in 1..Len(results) : ~results[j].isFinal THEN "interim"
    ELSE "mixed"

\* event is the event the step handles, before the kind of the event the step
\* before it handled
NBegin(s, name, arg) ==
    [Begin(s, name, arg) EXCEPT !.late = FALSE, !.event = <<>>,
                                !.before = EventKind(s.event)]

\* ---- the steps of useWebSpeechRecognition and of its environment
WebFits(s) == Len(s.timers) <= MaxTimers /\ Len(s.finalTranscriptRef) <= MaxText

WebStep(s) ==
    /\ backend \in {"web", "presentation"}
    /\ WebFits(s)
    /\ web' = EndDispatch(s)
    /\ presentation' = IF backend = "presentation"
                       THEN PresentationResults(presentation, s.onResultCalls)
                       ELSE presentation
    /\ Len(presentation'.arrived) <= MaxEntries
    /\ UNCHANGED <<tokenize, route, tok, mrm, backend, hasSpeechRecognition, online, sr, ext, strm, rt, assistant>>

\* the caller calls start(); the permission query answers at once
WebStartStep(granted) ==
    /\ FreeInst(web) # {}
    /\ WebStep(WebStart(NBegin([web EXCEPT !.restarts = 0, !.stopped = FALSE],
                              "start", IF granted THEN "granted" ELSE "denied"),
                        granted))

\* the caller calls stop()
WebStopStep ==
    WebStep(Cut(WebStop(NBegin([web EXCEPT !.restarts = 0, !.stopped = TRUE], "stop", ""))))

\* the engine has started
WebOnStartStep(i) ==
    /\ web.eng[i] = "starting"
    /\ WebStep(WebOnStart(NBegin([web EXCEPT !.eng[i] = "running"], "onstart", ""), i))

\* the engine ends after stop(), or by itself (the provider's timeout)
WebOnEndStep(i) ==
    /\ web.eng[i] \in {"running", "stopping"}
    /\ WebStep(WebOnEnd(NBegin([web EXCEPT !.eng[i] = "idle", !.restarts = 0], "onend", ""), i))

\* the engine fails: it dispatches "error" and right after it "end"
WebOnErrorStep(i, e) ==
    /\ web.eng[i] \in {"starting", "running"}
    /\ LET s == [web EXCEPT !.eng[i] = "idle",
                                 !.restarts = IF e = "network" THEN @ ELSE 0]
       IN  WebStep(WebOnEnd(WebOnError(NBegin(s, "onerror", e), i, e), i))

\* the engine delivers results
WebOnResultStep(i, results) ==
    /\ web.eng[i] \in {"running", "stopping"}
    /\ WebStep(WebOnResult([NBegin([web EXCEPT !.restarts = 0], "onresult", "")
                                EXCEPT !.event = results],
                            results))

\* a timer expires
WebTimerStep(j) ==
    /\ j \in 1..Len(web.timers)
    /\ MayExpire(web.timers, j)
    /\ LET t == web.timers[j]
           s == [NBegin([web EXCEPT !.timers = RemoveAt(@, j)], t.kind, "skipped")
                    EXCEPT !.late = t.cut]
           after == IF t.kind = "auto" THEN WebAutoRestart(s, t.inst)
                    ELSE WebNetworkRetry(s, t.inst)
       IN  WebStep(IF after.eng[t.inst] # s.eng[t.inst]
                   THEN Restarted([after EXCEPT !.op.arg = "started"], maxRetries + 1)
                   ELSE after)

\* ---- the steps of useSpeechRecognition, its managers and their environment
SrFits(s) == Len(s.timers) <= MaxTimers /\ Len(s.transcript) <= MaxText

SrStep(s) ==
    /\ backend = "sr"
    /\ SrFits(s)
    /\ sr' = SrEndDispatch(s)
    /\ UNCHANGED <<tokenize, route, tok, mrm, backend, hasSpeechRecognition, online, web, ext, strm, rt,
                   presentation, assistant>>

\* the steps of useSpeechRecognition keep, beside its state, the manager whose
\* event or timer the step handles, 0 in a call of the caller and in a retry
MBegin(s, name, arg, m) == [NBegin(s, name, arg) EXCEPT !.who = m]

\* the caller calls start()
SrStartStep ==
    /\ FreeMgr(sr) # {}
    /\ SrStep(SrStart(MBegin([sr EXCEPT !.restarts = 0, !.stopped = FALSE], "start", "", 0)))

\* the caller calls stop()
SrStopStep ==
    SrStep(Cut(SrStop(MBegin([sr EXCEPT !.restarts = 0, !.stopped = TRUE], "stop", "", 0))))

\* the engine of a manager has started
MgrOnStartStep(m) ==
    /\ m \in DOMAIN sr.mgr
    /\ sr.mgr[m].eng = "starting"
    /\ SrStep(MgrOnStart(MBegin([sr EXCEPT !.mgr[m].eng = "running"], "onstart", "", m), m))

\* the engine of a manager ends after stop() or abort(), or by itself
MgrOnEndStep(m) ==
    /\ m \in DOMAIN sr.mgr
    /\ sr.mgr[m].eng \in {"running", "stopping"}
    /\ SrStep(MgrOnEnd(MBegin([sr EXCEPT !.mgr[m].eng = "idle", !.restarts = 0],
                               "onend", "", m), m))

\* the engine of a manager fails: it dispatches "error" and right after it "end"
MgrOnErrorStep(m, e) ==
    /\ m \in DOMAIN sr.mgr
    /\ sr.mgr[m].eng \in {"starting", "running"}
    /\ LET s == [sr EXCEPT !.mgr[m].eng = "idle",
                                !.restarts = IF e = "network" THEN @ ELSE 0]
       IN  SrStep(MgrOnEnd(MgrOnError(MBegin(s, "onerror", e, m), m, e), m))

\* the engine of a manager delivers results
MgrOnResultStep(m, results) ==
    /\ m \in DOMAIN sr.mgr
    /\ sr.mgr[m].eng \in {"running", "stopping"}
    /\ SrStep(MgrOnResult([MBegin([sr EXCEPT !.restarts = 0], "onresult", "", m)
                               EXCEPT !.event = results],
                           m, results))

\* a timer expires
SrTimerStep(j) ==
    /\ j \in 1..Len(sr.timers)
    /\ MayExpire(sr.timers, j)
    /\ LET t == sr.timers[j]
           s == [MBegin([sr EXCEPT !.timers = RemoveAt(@, j)], t.kind, "started",
                        IF t.kind = "fallback" THEN t.inst ELSE 0)
                    EXCEPT !.late = t.cut]
       IN  /\ t.kind = "retry" =>
                  FreeMgr(IF s.recognitionRef # 0 THEN MgrStop(s, s.recognitionRef) ELSE s) # {}
           /\ SrStep(Restarted(IF t.kind = "retry" THEN SrRetry(s) ELSE MgrFallback(s, t.inst),
                               srMaxRetries + 1))

\* ---- the steps of useExternalSpeechRecognition and of its environment
\* the chunked-upload hook's steps keep, beside its state, the response handled last
EBegin(s, name, arg) == [Begin(s, name, arg) EXCEPT !.event = NoResponse]

ExtFits(s) == Len(s.timers) <= MaxTimers /\ Len(s.transcript) <= MaxTranscript

ExtStep(s) ==
    /\ backend = "ext"
    /\ ExtFits(s)
    /\ ext' = [s EXCEPT !.timers = Settle(@)]
    /\ UNCHANGED <<tokenize, route, tok, mrm, backend, hasSpeechRecognition, online, web, sr, strm, rt,
                   presentation, assistant>>

\* the caller calls start(), one recording at a time
ExtStartStep ==
    /\ ext.pc = "idle" /\ ext.rec \in {"none", "inactive"} /\ ext.timers = <<>>
    /\ ExtStep(ExtStart(EBegin([ext EXCEPT !.stopped = FALSE], "start", "")))

\* the caller calls stop()
ExtStopStep ==
    ExtStep(ExtStop(EBegin([ext EXCEPT !.stopped = TRUE], "stop",
                          IF ext.pc = "uploading" THEN "inflight" ELSE "")))

\* getUserMedia answers
ExtGotUserMediaStep(granted) ==
    /\ ext.pc = "asking"
    /\ ExtStep(ExtGotUserMedia(EBegin(ext, "getUserMedia",
                                     IF granted THEN "granted" ELSE "denied"),
                               granted))

\* a timer expires
ExtTimerStep(j) ==
    /\ j \in 1..Len(ext.timers)
    /\ MayExpire(ext.timers, j)
    /\ LET t == ext.timers[j]
           s == EBegin([ext EXCEPT !.timers = RemoveAt(@, j)], t.kind, "")
       IN  ExtStep(IF t.kind = "duration" THEN ExtDuration(s) ELSE ExtStartRecording(s))

\* the recorder, stopped, hands over what it recorded and dispatches "stop"
ExtOnStopStep(size) ==
    /\ ext.rec = "stopping"
    /\ ExtStep(ExtOnStop(EBegin(ext, "onstop", IF size > 0 THEN "data" ELSE "empty"), size))

\* the upload is answered
ExtUploadedStep(r) ==
    /\ ext.pc = "uploading"
    /\ ExtStep([ExtUploaded(EBegin(ext, "upload", r.kind), r) EXCEPT !.event = r])

\* --- the steps of useStreamingSpeechRecognition and of its environment
\* the streaming hook's steps keep, beside its state, the response handled last
SBegin(s, name, arg) == [Begin(s, name, arg) EXCEPT !.event = NoResponse]

StrmFits(s) ==
    /\ s.chunks <= MaxChunks /\ s.inflight <= MaxInflight
    /\ Len(s.transcript) <= MaxTranscript /\ s.sessions <= MaxSessions

StrmStep(s) ==
    /\ backend \in {"strm", "assistant"}
    /\ StrmFits(s)
    /\ strm' = s
    /\ assistant' = IF backend = "assistant"
                    THEN AssistantResults(assistant, s.onResultCalls)
                    ELSE assistant
    /\ Len(assistant'.arrived) <= MaxEntries
    /\ UNCHANGED <<tokenize, route, tok, mrm, backend, hasSpeechRecognition, online, web, sr, ext, rt, presentation>>

\* the caller calls start(), one recording at a time
StrmStartStep ==
    /\ strm.pc = "idle" /\ strm.rec \in {"none", "inactive"}
    /\ StrmStep(StrmStart(SBegin([strm EXCEPT !.stopped = FALSE], "start", "")))

\* the caller calls stop()
StrmStopStep ==
    StrmStep(StrmStop(SBegin([strm EXCEPT !.stopped = TRUE], "stop",
                             IF strm.inflight > 0 THEN "inflight" ELSE "")))

\* getUserMedia answers
StrmGotUserMediaStep(granted) ==
    /\ strm.pc = "asking"
    /\ StrmStep(StrmGotUserMedia(SBegin(strm, "getUserMedia",
                                       IF granted THEN "granted" ELSE "denied"),
                                 granted))

\* the recorder hands over the data of one timeslice
StrmDataStep(size) ==
    /\ strm.rec = "recording"
    /\ StrmStep(StrmData(SBegin(strm, "ondataavailable", ""), size))

\* the recorder, stopped, hands over the rest and dispatches "stop"
StrmOnStopStep(size) ==
    /\ strm.rec = "stopping"
    /\ StrmStep(StrmData(SBegin([strm EXCEPT !.rec = "inactive"], "onstop", ""), size))

\* the interval ticks
StrmTickStep ==
    /\ strm.interval
    /\ LET s == StrmTick(SBegin(strm, "tick", "skipped")) IN
       StrmStep([s EXCEPT !.op.arg = IF s.inflight > strm.inflight THEN "sent"
                                     ELSE IF strm.chunks = 0 THEN "empty"
                                     ELSE "skipped"])

\* an upload is answered
StrmResponseStep(r) ==
    /\ strm.inflight > 0
    /\ StrmStep([StrmResponse(SBegin(strm, "response", r.kind), r) EXCEPT !.event = r])

\* ---- the steps of useRealtimeSpeechRecognition and of its environment
RtStep(s) ==
    /\ backend = "rt"
    /\ Len(s.transcript) <= MaxText
    /\ rt' = s
    /\ UNCHANGED <<tokenize, route, tok, mrm, backend, hasSpeechRecognition, online, web, sr, ext, strm,
                   presentation, assistant>>

\* the caller calls start(), one recording at a time
RtStartStep ==
    /\ rt.pc = "idle" /\ rt.ws \in {"none", "closed"} /\ ~rt.interval
    /\ RtStep(RtStart(Begin(rt, "start", "")))

\* the caller calls stop()
RtStopStep == RtStep(RtStop(Begin(rt, "stop", "")))

\* getUserMedia answers
RtGotUserMediaStep(granted) ==
    /\ rt.pc = "asking"
    /\ RtStep(RtGotUserMedia(Begin(rt, "getUserMedia",
                                   IF granted THEN "granted" ELSE "denied"),
                             granted))

\* the socket opens
RtOnOpenStep ==
    /\ rt.ws = "connecting"
    /\ RtStep(RtOnOpen(Begin([rt EXCEPT !.ws = "open"], "onopen", "")))

\* the socket delivers a message
RtOnMessageStep(msg) ==
    /\ rt.ws = "open"
    /\ RtStep(RtOnMessage([Begin(rt, "onmessage", msg.type) EXCEPT !.event = msg], msg))

\* the socket fails
RtOnErrorStep ==
    /\ rt.ws \in {"connecting", "open"}
    /\ RtStep(RtOnError(Begin([rt EXCEPT !.ws = "closing"], "onerror", "")))

\* the socket is closed, by close() or by the server
RtOnCloseStep ==
    /\ rt.ws \in {"open", "closing"}
    /\ RtStep(RtOnClose(Begin([rt EXCEPT !.ws = "closed"], "onclose", "")))

\* the interval ticks
RtTickStep ==
    /\ rt.interval
    /\ RtStep(RtTick(Begin(rt, "tick", "")))

\* -------------------------- the steps of the presentation page's file upload
FileUploadStep(r) ==
    /\ backend = "presentation"
    /\ presentation' = HandleFileUpload(presentation, r)
    /\ Len(presentation'.arrived) <= MaxEntries
    /\ UNCHANGED <<tokenize, route, tok, mrm, backend, hasSpeechRecognition, online, web, sr, ext, strm, rt, assistant>>

\* ---- the steps of useMediaRecorderSpeech and of its environment
MrmFits(s) ==
    /\ Len(s.timers) <= MaxTimers /\ s.chunks <= MaxChunks
    /\ s.live + s.asking <= MaxStreams /\ s.ending <= MaxStreams

MrmStep(s) ==
    /\ backend = "mrm"
    /\ MrmFits(s)
    /\ mrm' = [s EXCEPT !.timers = Settle(@)]
    /\ UNCHANGED <<tokenize, route, tok, backend, hasSpeechRecognition, online, web, sr, ext, strm, rt,
                   presentation, assistant>>

\* the caller calls start()
MrmStartStep == MrmStep(MrmStart(Begin([mrm EXCEPT !.stopped = FALSE], "start", "")))

\* the caller calls stop()
MrmStopStep == MrmStep(MrmStop(Begin([mrm EXCEPT !.stopped = TRUE], "stop", "")))

\* getUserMedia answers
MrmGotUserMediaStep(granted) ==
    /\ mrm.asking > 0
    /\ MrmStep(MrmGotUserMedia(Begin(mrm, "getUserMedia",
                                     IF granted THEN "granted" ELSE "denied"),
                               granted))

\* a timer expires
MrmTimerStep(j) ==
    /\ j \in 1..Len(mrm.timers)
    /\ MayExpire(mrm.timers, j)
    /\ LET t == mrm.timers[j]
           s == Begin([mrm EXCEPT !.timers = RemoveAt(@, j)], t.kind, "")
       IN  MrmStep(IF t.kind = "duration" THEN MrmManagerStop(s) ELSE MrmRestart(s))

\* a recorder, stopped, hands over what it recorded and dispatches "stop"
MrmOnStopStep(size) ==
    /\ mrm.ending > 0
    /\ MrmStep(MrmProcessRecording(Begin(mrm, "onstop", IF size > 0 THEN "data" ELSE "empty"),
                                   size))

\* ---- the steps of TokenizedText and of its environment
TokStep(s) ==
    /\ backend = "tokenizer"
    /\ tok' = s
    /\ UNCHANGED <<tokenize, route, mrm, backend, hasSpeechRecognition, online, web, sr, ext, strm,
                   rt, presentation, assistant>>

\* the component is mounted with its text: the effect runs
TokMountStep ==
    /\ tok.pc = "new"
    /\ TokStep(TokEffect([tok EXCEPT !.pc = "mounted"]))

\* the 100 ms timer expires
TokTimerStep ==
    /\ tok.timer
    /\ Len(tok.fetches) < MaxFetches
    /\ TokStep(TokTokenize(tok))

\* a request is answered; the state of a component unmounted is gone
TokResponseStep(j, r) ==
    /\ j \in 1..Len(tok.fetches)
    /\ TokStep(IF tok.pc = "mounted" THEN TokResponse(TokAnswered(tok, j), r)
               ELSE [TokAnswered(tok, j) EXCEPT
                        !.request = IF TokSucceeded(r) THEN "ok" ELSE "failed"])

\* a request is answered by /api/tokenize
TokServedStep(j) ==
    /\ j \in 1..Len(tok.fetches)
    /\ TokResponseStep(j, TokenizePost(tok.fetches[j]))

\* the parent renders the component with another text
TokRenderStep(text) ==
    /\ tok.pc = "mounted"
    /\ text # tok.text
    /\ TokStep(TokRender(tok, text))

\* the component is unmounted: the cleanup of the effect clears the timer
TokUnmountStep ==
    /\ tok.pc = "mounted"
    /\ TokStep([tok EXCEPT !.pc = "unmounted", !.timer = FALSE])

\* ---- the step of /api/tokenize
TokenizePostStep ==
    /\ backend = "tokenize"
    /\ tokenize.pc = "posted"
    /\ tokenize' = [tokenize EXCEPT !.response = TokenizePost(tokenize.text), !.pc = "done"]
    /\ UNCHANGED <<route, tok, mrm, backend, hasSpeechRecognition, online, web, sr, ext,
                   strm, rt, presentation, assistant>>

\* ---- the steps of the batch transcription routes and of their provider
RouteStep(name, s) ==
    /\ backend = "route"
    /\ route.name = name
    /\ route' = s
    /\ UNCHANGED <<tokenize, tok, mrm, backend, hasSpeechRecognition, online, web, sr, ext, strm, rt,
                   presentation, assistant>>

\* a client posts to /api/gemini-speech
GeminiPostStep(file) ==
    /\ route.pc \in {"idle", "done"}
    /\ RouteStep("gemini", GeminiPost(Arrive(route, file)))

\* the call of Gemini ends
GeminiReplyStep(outcome) ==
    /\ route.pc = "calling"
    /\ RouteStep("gemini", GeminiReply(route, outcome))

\* a client posts to the Deepgram route
DeepgramPostStep(file) ==
    /\ route.pc \in {"idle", "done"}
    /\ RouteStep("deepgram", DeepgramPost(Arrive(route, file)))

\* the call of Deepgram ends
DeepgramReplyStep(outcome, result) ==
    /\ route.pc = "calling"
    /\ RouteStep("deepgram", DeepgramReply(route, outcome, result))

\* ------------------------------------------------- the native recognition
BrowserInit ==
    /\ hasSpeechRecognition \in BOOLEAN
    /\ online \in BOOLEAN

WebInit ==
    web \in [continuous : BOOLEAN, interimResults : BOOLEAN,
             isListening : {FALSE}, error : {Null},
             transcript : {<<>>}, interimTranscript : {<<>>},
             recognitionRef : {0}, finalTranscriptRef : {<<>>}, retryCountRef : {0},
             eng : {[i \in Inst |-> "none"]}, timers : {<<>>},
             op : {Op("init", "")}, onErrorCalls : {<<>>}, onResultCalls : {<<>>},
             restarts : {0}, stopped : {FALSE}, late : {FALSE}, event : {<<>>},
            before : {"none"}]

SrInit ==
    sr \in [continuous : {TRUE}, interimResults : {TRUE},
            isSupported : {hasSpeechRecognition},
            isListening : {FALSE}, error : {SrNull},
            transcript : {<<>>}, interimTranscript : {<<>>},
            recognitionRef : {0}, retryCountRef : {0},
            mgr : {[m \in Inst |-> NoMgr], [m \in Mgrs |-> NoMgr]}, timers : {<<>>},
            op : {Op("init", "")}, onErrorCalls : {<<>>}, onResultCalls : {<<>>},
            restarts : {0}, stopped : {FALSE}, late : {FALSE}, event : {<<>>},
            before : {"none"}, who : {0}]

ExtInit ==
    ext \in [continuous : BOOLEAN, isSupported : BOOLEAN,
             isListening : {FALSE}, error : {Null}, transcript : {<<>>},
             speakers : {[t \in Tags |-> Null]},
             rec : {"none"}, tracks : {FALSE}, chunks : {0}, pc : {"idle"},
             seen : {FALSE}, timers : {<<>>}, cycles : {0}, event : {NoResponse},
             op : {Op("init", "")}, onErrorCalls : {<<>>}, onResultCalls : {<<>>},
             stopped : {FALSE}]

StrmInit ==
    strm \in [isSupported : BOOLEAN,
              isListening : {FALSE}, error : {Null},
              transcript : {<<>>}, interimTranscript : {<<>>},
              speakers : {[t \in Tags |-> Null]},
              rec : {"none"}, tracks : {FALSE}, chunks : {0}, pc : {"idle"},
              seen : {FALSE}, interval : {FALSE}, inflight : {0}, event : {NoResponse},
              sessionIdRef : {0}, sessions : {0}, sent : {0},
              op : {Op("init", "")}, onErrorCalls : {<<>>}, onResultCalls : {<<>>},
              stopped : {FALSE}]

RtInit ==
    rt \in [isSupported : BOOLEAN,
            isListening : {FALSE}, isConnected : {FALSE}, status : {"disconnected"},
            error : {Null}, transcript : {<<>>}, interimTranscript : {<<>>},
            speakers : {[t \in Tags |-> Null]},
            rec : {"none"}, tracks : {FALSE}, ws : {"none"}, pc : {"idle"},
            seen : {FALSE}, interval : {FALSE},
            op : {Op("init", "")}, onErrorCalls : {<<>>}, onResultCalls : {<<>>},
            event : {Message("init", <<>>, <<>>, FALSE, 0)}]

MrmInit ==
    mrm \in [autoRestart : BOOLEAN, isSupported : BOOLEAN,
             isRecording : {FALSE}, error : {Null}, lastRecording : {FALSE},
             mgrIsRecording : {FALSE}, rec : {"none"}, audioStream : {FALSE},
             chunks : {0}, timers : {<<>>},
             asking : {0}, live : {0}, orphans : {0}, ending : {0},
             op : {Op("init", "")}, onErrorCalls : {<<>>}, onResultCalls : {<<>>},
             stopped : {FALSE}]

TokInit ==
    tok \in [text : TokTexts, words : {<<>>}, shown : {"none"}, timer : {FALSE},
             isTokenizing : {FALSE}, request : {"none"}, fetches : {<<>>}, pc : {"new"}]

\* the route and whether its API key is set in the environment
RouteInit ==
    route \in [name : {"gemini", "deepgram"}, hasKey : BOOLEAN, file : {NoFile},
               status : {0}, providerCalls : {0}, retryCount : {0},
               outcome : {"none"}, waits : {<<>>},
               result : {NoResult}, speakers : {<<>>}, pc : {"idle"}]

\* the text a client has posted to /api/tokenize
TokenizeInit ==
    tokenize \in [text : IF backend = "tokenize" THEN PostedTexts ELSE {<<>>},
                  response : {TokenizeResponse(0, FALSE, FALSE, <<>>)}, pc : {"posted"}]

PagesInit ==
    /\ presentation = [transcriptEntries |-> <<>>, webSpeechIdCounter |-> 0, arrived |-> <<>>]
    /\ assistant = [transcriptEntries |-> <<>>, transcriptIdCounter |-> 0, arrived |-> <<>>]

Backends == {"web", "sr", "ext", "strm", "rt", "mrm", "presentation", "assistant",
             "tokenizer", "route", "tokenize"}

\* a run drives one backend; the props of the others stay at their defaults
Init ==
    /\ backend \in Backends
    /\ BrowserInit
    /\ backend \notin {"web", "sr"} => hasSpeechRecognition /\ online
    /\ backend # "sr" => hasSpeechRecognition /\ online
    /\ backend = "sr" => online
    /\ WebInit
    /\ backend # "web" => web.continuous /\ web.interimResults
    /\ SrInit
    /\ backend # "sr" => DOMAIN sr.mgr = Inst
    /\ ExtInit
    /\ backend # "ext" => ext.continuous /\ ext.isSupported
    /\ StrmInit
    /\ backend # "strm" => strm.isSupported
    /\ RtInit
    /\ backend # "rt" => rt.isSupported
    /\ MrmInit
    /\ backend # "mrm" => mrm.autoRestart /\ mrm.isSupported
    /\ TokInit
    /\ backend # "tokenizer" => tok.text = <<>>
    /\ RouteInit
    /\ backend # "route" => route.name = "gemini" /\ route.hasKey
    /\ TokenizeInit
    /\ PagesInit

WebNext ==
    \/ \E granted \in BOOLEAN : WebStartStep(granted)
    \/ WebStopStep
    \/ \E i \in Inst : WebOnStartStep(i)
    \/ \E i \in Inst : WebOnEndStep(i)
    \/ \E i \in Inst, e \in ErrorKinds : WebOnErrorStep(i, e)
    \/ \E i \in Inst, results \in PlainBatches : WebOnResultStep(i, results)
    \/ \E j \in 1..MaxTimers : WebTimerStep(j)

SrNext ==
    \/ SrStartStep
    \/ SrStopStep
    \/ \E m \in Mgrs : MgrOnStartStep(m)
    \/ \E m \in Mgrs : MgrOnEndStep(m)
    \/ \E m \in Mgrs, e \in ErrorKinds : MgrOnErrorStep(m, e)
    \/ \E m \in Mgrs, results \in PlainBatches : MgrOnResultStep(m, results)
    \/ \E j \in 1..MaxTimers : SrTimerStep(j)

NativeNext == WebNext \/ SrNext

\* the native recognition backend, in either of its hooks
NativeInit == Init /\ backend \in {"web", "sr"} /\ DOMAIN sr.mgr = Inst

SpecNative == NativeInit /\ [][NativeNext]_vars

ExtNext ==
    \/ ExtStartStep
    \/ ExtStopStep
    \/ \E granted \in BOOLEAN : ExtGotUserMediaStep(granted)
    \/ \E j \in 1..MaxTimers : ExtTimerStep(j)
    \/ \E size \in {0, 1} : ExtOnStopStep(size)
    \/ \E r \in PlainResponses : ExtUploadedStep(r)

StrmNext ==
    \/ StrmStartStep
    \/ StrmStopStep
    \/ \E granted \in BOOLEAN : StrmGotUserMediaStep(granted)
    \/ \E size \in {0, 1} : StrmDataStep(size)
    \/ \E size \in {0, 1} : StrmOnStopStep(size)
    \/ StrmTickStep
    \/ \E r \in PlainResponses : StrmResponseStep(r)

CaptureNext == ExtNext \/ StrmNext

\* useSpeechRecognition with room for a second manager, while the network fails
ManagersNext ==
    \/ SrStartStep
    \/ SrStopStep
    \/ \E m \in Mgrs : MgrOnStartStep(m)
    \/ \E m \in Mgrs : MgrOnEndStep(m)
    \/ \E m \in Mgrs : MgrOnErrorStep(m, "network")
    \/ \E j \in 1..MaxTimers : SrTimerStep(j)

ManagersInit == Init /\ backend = "sr" /\ DOMAIN sr.mgr = Mgrs

SpecManagers == ManagersInit /\ [][ManagersNext]_vars

\* the chunked-upload backend and the streaming backend
CaptureInit == Init /\ backend \in {"ext", "strm"}

SpecCapture == CaptureInit /\ [][CaptureNext]_vars

\* the pages that assemble the transcript, with the hooks that hand them the
\* fragments, while the recognition does not fail
PagesNext ==
    \/ \E granted \in BOOLEAN : WebStartStep(granted)
    \/ WebStopStep
    \/ \E i \in Inst : WebOnStartStep(i)
    \/ \E i \in Inst, results \in SingleBatches : WebOnResultStep(i, results)
    \/ \E r \in Responses : FileUploadStep(r)
    \/ StrmStartStep
    \/ StrmStopStep
    \/ \E granted \in BOOLEAN : StrmGotUserMediaStep(granted)
    \/ \E size \in {0, 1} : StrmDataStep(size)
    \/ \E size \in {0, 1} : StrmOnStopStep(size)
    \/ StrmTickStep
    \/ \E r \in Responses : StrmResponseStep(r)

TranscriptPagesInit == Init /\ backend \in {"presentation", "assistant"}

SpecPages == TranscriptPagesInit /\ [][PagesNext]_vars

\* the hooks that keep an interim transcript, handed events of several results,
\* while the recognition does not fail
InterimNext ==
    \/ \E granted \in BOOLEAN : WebStartStep(granted)
    \/ WebStopStep
    \/ \E i \in Inst : WebOnStartStep(i)
    \/ \E i \in Inst, results \in Batches : WebOnResultStep(i, results)
    \/ SrStartStep
    \/ SrStopStep
    \/ \E m \in Mgrs : MgrOnStartStep(m)
    \/ \E m \in Mgrs, results \in Batches : MgrOnResultStep(m, results)
    \/ RtStartStep
    \/ RtStopStep
    \/ \E granted \in BOOLEAN : RtGotUserMediaStep(granted)
    \/ RtOnOpenStep
    \/ \E msg \in Messages : RtOnMessageStep(msg)
    \/ RtOnErrorStep
    \/ RtOnCloseStep
    \/ RtTickStep

InterimInit == Init /\ backend \in {"web", "sr", "rt"} /\ DOMAIN sr.mgr = Inst

SpecInterim == InterimInit /\ [][InterimNext]_vars

MrmNext ==
    \/ MrmStartStep
    \/ MrmStopStep
    \/ \E granted \in BOOLEAN : MrmGotUserMediaStep(granted)
    \/ \E j \in 1..MaxTimers : MrmTimerStep(j)
    \/ \E size \in {0, 1} : MrmOnStopStep(size)

\* the backends that record clips: MediaRecorderSpeechManager under its hook,
\* and the chunked-upload hook
RecorderNext == MrmNext \/ ExtNext

RecorderInit == Init /\ backend \in {"mrm", "ext"}

SpecRecorder == RecorderInit /\ [][RecorderNext]_vars

\* one TokenizedText, from its mounting on
TokNext ==
    \/ TokMountStep
    \/ TokTimerStep
    \/ \E j \in 1..MaxFetches, r \in TokResponses : TokResponseStep(j, r)
    \/ TokUnmountStep

TokenizerInit == Init /\ backend = "tokenizer"

SpecTokenizer == TokenizerInit /\ [][TokNext]_vars

\* one TokenizedText rendered with one text after another, its requests
\* answered by /api/tokenize
RerenderNext ==
    \/ TokMountStep
    \/ \E text \in {t \in TokTexts : Len(t) <= MaxProp} : TokRenderStep(text)
    \/ TokTimerStep
    \/ \E j \in 1..MaxFetches : TokServedStep(j)
    \/ TokUnmountStep

RerenderInit == Init /\ backend = "tokenizer" /\ Len(tok.text) <= MaxProp

SpecRerender == RerenderInit /\ [][RerenderNext]_vars

\* /api/tokenize, posted a text
PostedNext == TokenizePostStep

PostedInit == Init /\ backend = "tokenize"

SpecPosted == PostedInit /\ [][PostedNext]_vars

\* one batch transcription route, request after request
RouteNext ==
    \/ \E file \in AudioFiles : GeminiPostStep(file)
    \/ \E outcome \in ProviderOutcomes : GeminiReplyStep(outcome)
    \/ \E file \in AudioFiles : DeepgramPostStep(file)
    \/ \E outcome \in ProviderOutcomes : DeepgramReplyStep(outcome, NoResult)

RoutesInit == Init /\ backend = "route"

SpecRoutes == RoutesInit /\ [][RouteNext]_vars

\* the Deepgram route, handed a recording and every result of the provider
SegmentsNext ==
    \/ DeepgramPostStep([present |-> TRUE, size |-> geminiMinSize,
                         type |-> <<"audio", "/", "webm">>])
    \/ /\ route.pc = "calling"
       /\ \E outcome \in ProviderOutcomes, result \in ProviderResults :
              DeepgramReplyStep(outcome, result)

SegmentsInit == Init /\ backend = "route" /\ route.name = "deepgram" /\ route.hasKey

SpecSegments == SegmentsInit /\ [][SegmentsNext]_vars

\* the hooks that name the speakers, handed responses of several speakers;
\* the streaming hook hands its fragments to PresentationAssistant
SpeakersNext ==
    \/ ExtStartStep
    \/ ExtStopStep
    \/ \E granted \in BOOLEAN : ExtGotUserMediaStep(granted)
    \/ \E j \in 1..MaxTimers : ExtTimerStep(j)
    \/ \E size \in {0, 1} : ExtOnStopStep(size)
    \/ \E r \in SpeakerResponses : ExtUploadedStep(r)
    \/ StrmStartStep
    \/ StrmStopStep
    \/ \E granted \in BOOLEAN : StrmGotUserMediaStep(granted)
    \/ \E size \in {0, 1} : StrmDataStep(size)
    \/ \E size \in {0, 1} : StrmOnStopStep(size)
    \/ StrmTickStep
    \/ \E r \in SpeakerResponses : StrmResponseStep(r)
    \/ RtStartStep
    \/ RtStopStep
    \/ \E granted \in BOOLEAN : RtGotUserMediaStep(granted)
    \/ RtOnOpenStep
    \/ \E msg \in SpeakerMessages : RtOnMessageStep(msg)
    \/ RtOnErrorStep
    \/ RtOnCloseStep
    \/ RtTickStep

SpeakersInit == Init /\ backend \in {"ext", "assistant", "rt"}

SpecSpeakers == SpeakersInit /\ [][SpeakersNext]_vars

\* ------------------------------------------------------------------ claims
TimerOps == {"auto", "net", "retry", "fallback"}

\* C1: in a run of network failures with no result in between, the backend
\* restarts its engine at most maxRetries times, whichever timer does it.
C1_RestartsWithinBudget == web.restarts <= maxRetries /\ sr.restarts <= srMaxRetries

\* C2: a timer that was pending when the caller called stop() never starts an
\* engine, also when the caller has called start() again in between.
C2_NoRestartAfterStop ==
    /\ web.late /\ web.op.name \in TimerOps => web.op.arg # "started"
    /\ sr.late /\ sr.op.name \in TimerOps => sr.op.arg # "started"

\* C3: the dispatch of the error not-allowed schedules no restart, by the
\* error handler, the fallback logic or the onend that follows the error.
C3_NotAllowedIsTerminal ==
    [][/\ web'.op = Op("onerror", "not-allowed") => Len(web'.timers) <= Len(web.timers)
       /\ sr'.op = Op("onerror", "not-allowed") => Len(sr'.timers) <= Len(sr.timers)]_vars

\* C4: the k-th consecutive network error delays its restart by d * 2^(k-1),
\* d the base delay of the hook: every pending retry has one of the delays
\* d, 2d, 4d.
C4_ExponentialBackoff ==
    /\ \A j \in 1..Len(web.timers) :
           web.timers[j].kind = "net" =>
               \E k \in 1..maxRetries : web.timers[j].delay = retryDelayRef * Pow2(k - 1)
    /\ \A j \in 1..Len(sr.timers) :
           sr.timers[j].kind = "retry" =>
               \E k \in 1..srMaxRetries : sr.timers[j].delay = retryDelay * Pow2(k - 1)

\* C5: a network failure that arrives when the attempt counter equals the
\* maximum invokes onError, sets the error, ends listening and schedules no
\* restart.
C5_ExhaustedBudgetSurfaces ==
    [][/\ (web.retryCountRef = maxRetries /\ web'.op = Op("onerror", "network")) =>
              /\ web'.onErrorCalls # <<>> /\ web'.error # Null /\ ~web'.isListening
              /\ Len(web'.timers) <= Len(web.timers)
       /\ (sr.retryCountRef = srMaxRetries /\ sr'.op = Op("onerror", "network")) =>
              /\ sr'.onErrorCalls # <<>> /\ sr'.error # SrNull /\ ~sr'.isListening
              /\ Len(sr'.timers) <= Len(sr.timers)]_vars

\* C6: every onstart of the engine leaves every attempt counter of the backend
\* at zero, and a failure that is being retried (its dispatch schedules a
\* restart) lowers no attempt counter.
C6_CounterResets ==
    [][/\ web'.op.name = "onstart" => web'.retryCountRef = 0
       /\ sr'.op.name = "onstart" =>
              sr'.retryCountRef = 0 /\ \A m \in DOMAIN sr.mgr : sr'.mgr[m].fallbackAttempts = 0
       /\ (web'.op.name = "onerror" /\ Len(web'.timers) > Len(web.timers)) =>
              web'.retryCountRef >= web.retryCountRef
       /\ (sr'.op.name = "onerror" /\ Len(sr'.timers) > Len(sr.timers)) =>
              /\ sr'.retryCountRef >= sr.retryCountRef
              /\ \A m \in DOMAIN sr.mgr : sr'.mgr[m].fallbackAttempts >= sr.mgr[m].fallbackAttempts]_vars

RestartPending(s) == \E j \in 1..Len(s.timers) : s.timers[j].kind = "restart"

\* C7: while the caller has not called stop(), a failed upload of the chunked
\* hook in continuous mode leaves isListening true with the next recording
\* cycle scheduled, and a tick of the streaming hook's interval that finds
\* recorded chunks sends them.
C7_ContinuousSurvival ==
    /\ (ext.op.name = "upload" /\ ext.op.arg \in FailureKinds
            /\ ext.continuous /\ ~ext.stopped) =>
           ext.isListening /\ RestartPending(ext)
    /\ (strm.op.name = "tick" /\ strm.isListening /\ ~strm.stopped) =>
           strm.op.arg # "skipped"

\* C8: in continuous mode a recording cycle that ends, without a stop(), with
\* nothing recorded makes no upload, emits no fragment, reports no error,
\* releases the capture device and schedules the next cycle.
C8_EmptyClipRestarts ==
    (ext.op = Op("onstop", "empty") /\ ext.continuous /\ ~ext.stopped) =>
        /\ ext.pc # "uploading"
        /\ ext.onResultCalls = <<>> /\ ext.onErrorCalls = <<>>
        /\ ~ext.tracks
        /\ RestartPending(ext)

\* the arrivals the presentation page makes an entry of
Kept(arrived) == SelectSeq(arrived, LAMBDA a : a.source = "file" \/ Trim(a.text) # <<>>)

\* C9: the entry list of a page is, in arrival order, one entry per final
\* fragment and per file segment it was handed, the j-th with id j; the
\* presentation page makes no entry of a live final fragment whose text is
\* blank, PresentationAssistant makes one of every final fragment.
C9_FinalAppendOnly ==
    /\ LET k == Kept(presentation.arrived)
           e == presentation.transcriptEntries
       IN  /\ Len(e) = Len(k)
           /\ \A j \in 1..Len(e) :
                  /\ e[j].id = ToString(j)
                  /\ e[j].content = IF k[j].source = "live" THEN Trim(k[j].text) ELSE k[j].text
                  /\ e[j].isCurrentUser = (k[j].source = "live")
    /\ LET a == assistant.arrived
           e == assistant.transcriptEntries
       IN  /\ Len(e) = Len(a)
           /\ \A j \in 1..Len(e) :
                  /\ e[j].id = ToString(j)
                  /\ e[j].content = Trim(a[j].text)
                  /\ e[j].isCurrentUser = (~a[j].hasSpeaker \/ a[j].speakerTag = 1)

\* C9, a case: the presentation page was handed a blank live final fragment and
\* then a file segment, and holds the entry of the segment alone, with id 1.
C9_Witness ==
    /\ Len(presentation.arrived) = 2
    /\ presentation.arrived[1].source = "live" /\ presentation.arrived[1].text = <<" ">>
    /\ presentation.arrived[2].source = "file"
    /\ Len(presentation.transcriptEntries) = 1
    /\ presentation.transcriptEntries[1].id = "1"

\* C9 as stated: every final fragment handed to a page has its entry.
C9_EveryFinalHasEntry ==
    /\ Len(presentation.transcriptEntries) = Len(presentation.arrived)
    /\ Len(assistant.transcriptEntries) = Len(assistant.arrived)

\* interimText of onresult: the transcripts of the interim results, joined
RECURSIVE InterimText(_)
InterimText(results) ==
    IF results = <<>> THEN <<>>
    ELSE (IF Head(results).isFinal THEN <<>> ELSE Head(results).transcript)
             \o InterimText(Tail(results))

AllInterim(results) == results # <<>> /\ \A j \in 1..Len(results) : ~results[j].isFinal

RtFlatInterim(msg) ==
    msg.type = "transcript" /\ msg.speakers = <<>> /\ msg.transcript # <<>> /\ ~msg.is_final

AllFinal(results) == results # <<>> /\ \A j \in 1..Len(results) : results[j].isFinal

RtFlatFinal(msg) ==
    msg.type = "transcript" /\ msg.speakers = <<>> /\ msg.transcript # <<>> /\ msg.is_final

\* C11: a final fragment clears the interim buffer: after an event of final
\* results alone (the native hooks) or a flat final message (the realtime
\* hook) has been handled, interimTranscript is empty.
C11_FinalClearsInterim ==
    /\ (web.op.name = "onresult" /\ AllFinal(web.event)) => web.interimTranscript = <<>>
    /\ (sr.op.name = "onresult" /\ AllFinal(sr.event)) => sr.interimTranscript = <<>>
    /\ (rt.op.name = "onmessage" /\ RtFlatFinal(rt.event)) => rt.interimTranscript = <<>>

\* the tags a handler has resolved, and the tags known to a hook
Resolved(s) == {s.onResultCalls[j].speakerTag :
                    j \in {k \in 1..Len(s.onResultCalls) : s.onResultCalls[k].hasSpeaker}}

Known(s) == {t \in Tags : s.speakers[t] # Null}

\* one step of a hook keeps the names: a stored name stays, a name handed out
\* is the one stored, and resolving known tags alone leaves the map as it was
KeepsNames(s, t) ==
    /\ \A tag \in Known(s) : t.speakers[tag] = s.speakers[tag]
    /\ \A j \in 1..Len(t.onResultCalls) :
           t.onResultCalls[j].hasSpeaker =>
               t.onResultCalls[j].speakerName = t.speakers[t.onResultCalls[j].speakerTag]
    /\ Resolved(t) \subseteq Known(s) => t.speakers = s.speakers

\* C12: once generateSpeakerName has stored a name for a tag, every later
\* resolution of the tag returns that name, the stored name is never
\* overwritten, and resolving a known tag leaves the speakers map unchanged.
C12_SpeakerStability ==
    [][KeepsNames(ext, ext') /\ KeepsNames(strm, strm') /\ KeepsNames(rt, rt')]_vars

\* C12, a case: a response has resolved tag 1 twice, and both fragments carry
\* the name stored for it.
C12_Witness ==
    /\ strm.op.name = "response"
    /\ Len(strm.onResultCalls) = 2
    /\ \A j \in 1..2 : /\ strm.onResultCalls[j].speakerTag = 1
                       /\ strm.onResultCalls[j].speakerName = strm.speakers[1]
    /\ strm.speakers[1] = SpeakerName(1)

\* C13: the names are given in first-seen order: the k tags a hook knows
\* (k within the pool) hold the first k names of the pool.
C13_FirstSeenOrder ==
    \A s \in {ext, strm, rt} :
        Cardinality(Known(s)) <= 5 =>
            {s.speakers[t] : t \in Known(s)} = {SpeakerName(k) : k \in 1..Cardinality(Known(s))}

\* the speakers array [{speakerTag: 1, text: "a"}, {speakerTag: 2, text: "b"}]
TwoSpeakers == <<[speakerTag |-> 1, text |-> <<"a">>], [speakerTag |-> 2, text |-> <<"b">>]>>

HandledTwoSpeakers(s) ==
    /\ s.op.name = "response"
    /\ s.event.kind = "body" /\ s.event.success /\ s.event.hasSpeakers
    /\ s.event.speakers = TwoSpeakers

\* C14: when the streaming hook handles a successful response whose speakers
\* are tag 1 saying "a" and tag 2 saying "b", tag 1 is named by the first pool
\* name and tag 2 by the second, two final fragments are emitted, "a" then "b",
\* and PresentationAssistant appends two entries, "a" then "b", each under its
\* speaker's name.
C14_TwoSpeakerResponse ==
    [][HandledTwoSpeakers(strm') =>
          /\ strm'.speakers[1] = "speaker A" /\ strm'.speakers[2] = "speaker B"
          /\ Len(strm'.onResultCalls) = 2
          /\ \A j \in 1..2 :
                 /\ strm'.onResultCalls[j].isFinal
                 /\ strm'.onResultCalls[j].text = TwoSpeakers[j].text
                 /\ strm'.onResultCalls[j].speakerTag = j
          /\ backend = "assistant" =>
                 LET old == assistant.transcriptEntries
                     new == assistant'.transcriptEntries
                 IN  /\ Len(new) = Len(old) + 2
                     /\ SubSeq(new, 1, Len(old)) = old
                     /\ new[Len(old) + 1].content = <<"a">>
                     /\ new[Len(old) + 1].speaker = "speaker A"
                     /\ new[Len(old) + 2].content = <<"b">>
                     /\ new[Len(old) + 2].speaker = "speaker B"]_vars

\* C14, a case: the response of the two speakers has been handled and the page
\* holds the two entries, "a" of the first speaker before "b" of the second.
C14_Witness ==
    /\ backend = "assistant" /\ HandledTwoSpeakers(strm)
    /\ Len(assistant.transcriptEntries) = 2
    /\ assistant.transcriptEntries[1].content = <<"a">>
    /\ assistant.transcriptEntries[1].speaker = "speaker A"
    /\ assistant.transcriptEntries[2].content = <<"b">>
    /\ assistant.transcriptEntries[2].speaker = "speaker B"

\* the step handles an event of one final result, right after an event of
\* interim results
FinalAfterInterim ==
    /\ backend = "presentation"
    /\ web.op.name = "onresult" /\ AllInterim(web.event)
    /\ web'.op.name = "onresult" /\ AllFinal(web'.event) /\ Len(web'.event) = 1

\* C15: on the presentation page an event of interim results adds no entry;
\* the event of one final result that follows it adds exactly one entry, with
\* the trimmed text of the final result, provided that text is not blank, and
\* leaves interimTranscript empty.
C15_InterimThenFinal ==
    [][/\ (backend = "presentation" /\ web' # web
              /\ web'.op.name = "onresult" /\ AllInterim(web'.event))
              => presentation'.transcriptEntries = presentation.transcriptEntries
       /\ FinalAfterInterim =>
              /\ web'.interimTranscript = <<>>
              /\ Trim(web'.event[1].transcript) # <<>> =>
                     LET old == presentation.transcriptEntries
                         new == presentation'.transcriptEntries
                     IN  /\ Len(new) = Len(old) + 1
                         /\ SubSeq(new, 1, Len(old)) = old
                         /\ new[Len(new)].content = Trim(web'.event[1].transcript)]_vars

\* C15, a case: after an interim event the final result "a" has been handled;
\* the page holds the one entry "a" and interimTranscript is empty.
C15_Witness ==
    /\ backend = "presentation"
    /\ web.op.name = "onresult" /\ web.before = "interim"
    /\ AllFinal(web.event) /\ web.event[1].transcript = <<"a">>
    /\ Len(presentation.transcriptEntries) = 1
    /\ presentation.transcriptEntries[1].content = <<"a">>
    /\ web.interimTranscript = <<>>

\* C15 as stated: the final result that follows an interim one adds exactly
\* one entry, with the text of the final result, whatever that text is.
C15_AnyFinalAddsEntry ==
    [][FinalAfterInterim =>
           /\ web'.interimTranscript = <<>>
           /\ Len(presentation'.transcriptEntries) = Len(presentation.transcriptEntries) + 1
           /\ presentation'.transcriptEntries[Len(presentation'.transcriptEntries)].content
                  = web'.event[1].transcript]_vars

\* the step from s to t is a call of stop() on a backend never started, or the
\* second of two calls of stop() in a row
StopAgain(s, t) == t.op.name = "stop" /\ s.op.name \in {"init", "stop"}

\* stop() has reported no error and leaves a hook not listening
QuietStop(t) == t.onErrorCalls = <<>> /\ ~t.isListening

\* C16: stop() on a backend never started, and the second of two calls of
\* stop() in a row, reports no error through onError, triggers no upload and
\* leaves the backend neither listening nor recording.
C16_IdempotentStop ==
    [][/\ StopAgain(web, web') => QuietStop(web')
       /\ StopAgain(sr, sr') => QuietStop(sr')
       /\ StopAgain(rt, rt') => QuietStop(rt') /\ rt'.rec # "recording"
       /\ StopAgain(ext, ext') =>
              QuietStop(ext') /\ ext'.rec # "recording" /\ ext'.pc = ext.pc
       /\ StopAgain(strm, strm') =>
              QuietStop(strm') /\ strm'.rec # "recording" /\ strm'.inflight = strm.inflight
       /\ StopAgain(mrm, mrm') =>
              /\ mrm'.onErrorCalls = <<>>
              /\ ~mrm'.isRecording /\ ~mrm'.mgrIsRecording /\ mrm'.rec # "recording"]_vars

\* the recorders of the manager that are recording
MrmActiveRecorders(s) == s.orphans + (IF s.rec = "recording" THEN 1 ELSE 0)

\* C17: in every reachable state at most one microphone stream has live
\* tracks and at most one recorder is recording, across the automatic restart
\* cycles and when start() is called again while an earlier start() waits for
\* the microphone.
C17_SingleCaptureSession == mrm.live <= 1 /\ MrmActiveRecorders(mrm) <= 1

\* C18: once stop() has been called, the processing of the recorder's stop
\* event begins no new recording cycle, neither at once nor through a restart
\* timer, and leaves every track stopped and the device released, until
\* start() is called again.
C18_StopEndsCapture ==
    [][/\ (mrm.stopped /\ mrm'.op.name = "onstop") =>
              /\ mrm'.asking = mrm.asking /\ ~RestartPending(mrm')
              /\ mrm'.live = 0
       /\ (ext.stopped /\ ext'.op.name \in {"onstop", "upload"} /\ ext'.pc = "idle") =>
              /\ ~RestartPending(ext') /\ ~ext'.tracks]_vars

\* C19: while the streaming hook is listening, a tick of its interval that
\* finds chunks in the buffer makes exactly one POST, which carries them all
\* and leaves the buffer empty.
C19_SendCadence ==
    [][(strm'.op.name = "tick" /\ strm.isListening /\ strm.chunks > 0) =>
           /\ strm'.inflight = strm.inflight + 1
           /\ strm'.chunks = 0]_vars

\* C20: stop() of the streaming hook sends every chunk captured and not yet
\* sent, the recorder's last chunk included: once the recorder stopped by
\* stop() has handed over its last data, no chunk is left in the buffer.
C20_StopFlushes == (strm.stopped /\ strm.op.name = "onstop") => strm.chunks = 0

\* C21: when stop() is called while an upload or a send is in flight, the
\* response that arrives next emits no fragment through onResult, does not
\* extend the transcript and does not change the speaker registry.
C21_InFlightDiscarded ==
    [][/\ (ext.op = Op("stop", "inflight") /\ ext'.op.name = "upload") =>
              /\ ext'.onResultCalls = <<>>
              /\ ext'.transcript = ext.transcript /\ ext'.speakers = ext.speakers
       /\ (strm.op = Op("stop", "inflight") /\ strm'.op.name = "response") =>
              /\ strm'.onResultCalls = <<>>
              /\ strm'.transcript = strm.transcript /\ strm'.speakers = strm.speakers]_vars

\* the timers of the recording backends
RecorderTimerOps == {"duration", "restart"}

\* C22: no timer of a recording backend is pending once stop() has returned:
\* a timer that fires right after stop() begins no recording cycle, and a tick
\* of the streaming interval right after stop() sends nothing.
C22_TimersClearedOnStop ==
    [][/\ (mrm.op.name = "stop" /\ mrm'.op.name \in RecorderTimerOps) =>
              mrm'.asking = mrm.asking
       /\ (ext.op.name = "stop" /\ ext'.op.name \in RecorderTimerOps) =>
              ext'.pc = ext.pc
       /\ (strm.op.name = "stop" /\ strm'.op.name = "tick") =>
              strm'.inflight = strm.inflight]_vars

\* C23: in the native backend an auto-restart after the engine has ended
\* consumes one attempt of the retry counter of the error recovery: when the
\* 100 ms timer set by the onend of an engine that ended by itself, with no
\* stop() of the caller, starts the engine, at least one attempt is used.
C23_AutoRestartBudgeted ==
    [][(web.op.name = "onend" /\ ~web.stopped /\ web'.op = Op("auto", "started")) =>
           web'.retryCountRef >= 1]_vars

\* the dispatch of the error no-speech has reported nothing: the error state
\* is as it was and onError has not been called
Unreported(s, t) == t.error = s.error /\ t.onErrorCalls = <<>>

\* C24: the error no-speech is benign in the native backends: its dispatch
\* reports no error to the caller, and in continuous mode the session goes on,
\* the hook listening or a restart of the engine pending.
C24_NoSpeechBenign ==
    [][/\ web'.op = Op("onerror", "no-speech") =>
              /\ Unreported(web, web')
              /\ web.continuous => web'.isListening \/ web'.timers # <<>>
       /\ sr'.op = Op("onerror", "no-speech") =>
              /\ Unreported(sr, sr')
              /\ sr.continuous => sr'.isListening \/ sr'.timers # <<>>]_vars

\* a hook has given up: it is not listening, its error is set and onError has
\* been called
GaveUp(t, none) == ~t.isListening /\ t.error # none /\ t.onErrorCalls # <<>>

\* C25: after a terminal error the listening flag is false and an error
\* message is set and passed to onError: the error of the realtime hook's
\* socket, its failed start, an error of the native hook that is neither
\* no-speech nor network, and an error useSpeechRecognition reports.
C25_TerminalErrorsStopListening ==
    [][/\ (rt'.op.name = "onerror" \/ rt'.op = Op("getUserMedia", "denied")) =>
              GaveUp(rt', Null)
       /\ (web'.op.name = "onerror" /\ web'.op.arg \notin {"no-speech", "network"}) =>
              GaveUp(web', Null)
       /\ (sr'.op.name = "onerror" /\ sr'.onErrorCalls # <<>>) =>
              GaveUp(sr', SrNull)]_vars

\* C26: the streaming hook generates its session identifier once per start(),
\* at the start() and nowhere else, and every POST it issues, the flush of
\* stop() included, carries the identifier of the latest start().
C26_OneSessionIdPerStart ==
    [][/\ (strm'.op.name = "start" /\ strm'.pc = "asking") =>
              /\ strm'.sessions = strm.sessions + 1
              /\ strm'.sessionIdRef = strm'.sessions
       /\ strm'.op.name # "start" =>
              /\ strm'.sessions = strm.sessions
              /\ strm'.sessionIdRef = strm.sessionIdRef
       /\ strm'.inflight > strm.inflight =>
              strm'.sent = strm'.sessions /\ strm'.sent > 0]_vars

\* the stop() of a second session has sent its flush, which carries the second
\* identifier
C26_Witness == strm.op.name = "stop" /\ strm.inflight > 0 /\ strm.sent = 2

\* C27: after stop() the interim transcript of a backend that keeps one is
\* empty, whatever interim text was shown before.
C27_StopClearsInterim ==
    /\ web.op.name = "stop" => web.interimTranscript = <<>>
    /\ sr.op.name = "stop" => sr.interimTranscript = <<>>
    /\ rt.op.name = "stop" => rt.interimTranscript = <<>>

\* the fragment or segment carried no speaker information, or the tag 1
OwnVoice(a) == ~a.hasSpeaker \/ a.speakerTag = 1

\* C28: the entry of a final fragment of the live recognition is the current
\* user's exactly if the fragment carried no speaker information or the
\* speaker tag 1; the entry of a segment or transcript of an uploaded file is
\* never the current user's.
C28_IsCurrentUser ==
    /\ LET a == assistant.arrived
           e == assistant.transcriptEntries
       IN  /\ Len(e) = Len(a)
           /\ \A j \in 1..Len(e) : e[j].isCurrentUser = OwnVoice(a[j])
    /\ LET k == Kept(presentation.arrived)
           e == presentation.transcriptEntries
       IN  /\ Len(e) = Len(k)
           /\ \A j \in 1..Len(e) :
                  e[j].isCurrentUser = (k[j].source = "live" /\ OwnVoice(k[j]))

\* C28, a case: PresentationAssistant holds the entry of a fragment of speaker
\* 1, the current user's, and the entry of a fragment of another speaker, not
\* the current user's.
C28_Witness ==
    /\ Len(assistant.transcriptEntries) = 2
    /\ assistant.arrived[1].hasSpeaker /\ assistant.arrived[1].speakerTag = 1
    /\ assistant.transcriptEntries[1].isCurrentUser
    /\ assistant.arrived[2].hasSpeaker /\ assistant.arrived[2].speakerTag # 1
    /\ ~assistant.transcriptEntries[2].isCurrentUser

\* C28 as stated: every entry, the entries of an uploaded file included, is
\* the current user's exactly if what it was made of carried no speaker
\* information or the speaker tag 1.
C28_EveryEntryDerived ==
    /\ \A j \in 1..Len(assistant.transcriptEntries) :
           assistant.transcriptEntries[j].isCurrentUser = OwnVoice(assistant.arrived[j])
    /\ LET k == Kept(presentation.arrived) IN
       \A j \in 1..Len(presentation.transcriptEntries) :
           presentation.transcriptEntries[j].isCurrentUser = OwnVoice(k[j])

\* C29: for a text that is not empty, once the tokenize request has failed
\* (the network, the status, or a body without success and words) the words
\* shown are the fallback segmentation of the text, and the words of the
\* service are shown only after a response that succeeded.
C29_TokenizerDegradation ==
    (tok.pc = "mounted" /\ tok.text # <<>>) =>
        /\ tok.request = "failed" =>
               tok.shown = "fallback" /\ tok.words = CreateFallbackWords(tok.text)
        /\ tok.shown = "service" => tok.request = "ok"
        /\ tok.request = "inflight" => tok.words = CreateFallbackWords(tok.text)

\* C29, a case: the request for the text "a", Maru, " " has failed, and the
\* words shown are the pieces "a", Maru, "", " ", "" of that text.
C29_Witness ==
    /\ tok.pc = "mounted" /\ tok.request = "failed"
    /\ tok.text = <<"a", Maru, " ">>
    /\ tok.words = <<Word(<<"a">>, FALSE), Word(<<Maru>>, FALSE), Word(<<>>, FALSE),
                     Word(<<" ">>, FALSE), Word(<<>>, FALSE)>>

\* a request with the API key set and an audio file in it, run up to its
\* response or to the call of the provider
Validated == route.pc \in {"calling", "done"} /\ route.hasKey /\ route.file.present

\* no call of the provider was made and the response is the 400 error
Rejected == route.status = 400 /\ route.providerCalls = 0

\* the provider was called and the response, if there is one, is not a 400
Accepted == route.providerCalls >= 1 /\ route.status # 400

\* C30: /api/gemini-speech rejects a payload smaller than 8000 bytes or
\* larger than 20 * 1024 * 1024 bytes with a 400 and without a call of the
\* provider, and calls the provider for every payload of a type it supports
\* whose size is within these limits, the limits included; the Deepgram route
\* rejects so the payloads smaller than 100 bytes only, and calls the
\* provider for every payload of 100 bytes and more, whatever its size.
C30_RouteSizeLimits ==
    Validated =>
        /\ route.name = "gemini" =>
               /\ (route.file.size < geminiMinSize \/ route.file.size > geminiMaxSize)
                      => Rejected
               /\ ( /\ route.file.size >= geminiMinSize
                    /\ route.file.size <= geminiMaxSize
                    /\ GeminiSupports(NormalizedType(route.file.type)) ) => Accepted
        /\ route.name = "deepgram" =>
               /\ route.file.size < deepgramMinSize => Rejected
               /\ route.file.size >= deepgramMinSize => Accepted /\ route.providerCalls = 1

\* C30, a case: a WebM payload of exactly 8000 bytes was posted to
\* /api/gemini-speech, and the provider has been called for it.
C30_Witness ==
    /\ route.name = "gemini" /\ route.pc = "calling" /\ route.providerCalls = 1
    /\ route.file.present /\ route.file.size = geminiMinSize
    /\ route.file.type = <<"audio", "/", "webm">>

\* C30 as stated: whichever the route, a payload smaller than 8 KB (the 8000
\* bytes of the Gemini route) or larger than 20 MB is rejected with a 400 and
\* without a call of the provider, and a payload within the limits is
\* accepted.
C30_EightKBTwentyMB ==
    Validated =>
        /\ (route.file.size < geminiMinSize \/ route.file.size > geminiMaxSize) => Rejected
        /\ ( /\ route.file.size >= geminiMinSize
             /\ route.file.size <= geminiMaxSize
             /\ (route.name = "gemini" => GeminiSupports(NormalizedType(route.file.type))) )
               => Accepted

\* C31: when getUserMedia answers a start() that stop() has overtaken (the
\* hook is awaiting the answer and isListening is already false), then after
\* the answer no recorder is recording, no send interval is running and no
\* microphone track is live, in the streaming hook and in the realtime hook.
C31_StopWhilePrompting ==
    [][ /\ ( /\ strm.pc = "asking" /\ ~strm.isListening
             /\ strm'.op.name = "getUserMedia" )
            => (strm'.rec # "recording" /\ ~strm'.interval /\ ~strm'.tracks)
        /\ ( /\ rt.pc = "asking" /\ ~rt.isListening
             /\ rt'.op.name = "getUserMedia" )
            => (rt'.rec # "recording" /\ ~rt'.interval /\ ~rt'.tracks) ]_vars

\* the response r carries speaker segments that the hook hands on
WithSegments(r) == r.kind = "body" /\ r.success /\ r.hasSpeakers

\* the calls of onResult are one per segment, in the order of the segments
InSegmentOrder(calls, speakers) ==
    /\ Len(calls) = Len(speakers)
    /\ \A j \in 1..Len(speakers) :
           /\ calls[j].text = speakers[j].text
           /\ calls[j].speakerTag = speakers[j].speakerTag

\* the entries after the step are the entries before it, then one entry per
\* segment in the order of the segments
AppendedInOrder(old, new, speakers) ==
    /\ Len(new) = Len(old) + Len(speakers)
    /\ SubSeq(new, 1, Len(old)) = old
    /\ \A j \in 1..Len(speakers) :
           /\ new[Len(old) + j].content = Trim(speakers[j].text)
           /\ new[Len(old) + j].speaker = SpeakerName(speakers[j].speakerTag)

SocketEvents == {"onopen", "onclose", "onerror", "onmessage"}

\* C33: in the realtime hook, while stop() is the last call (isListening is
\* false, status is 'disconnected' and isConnected is false) no event of the
\* socket changes status or isConnected; and status becomes 'connected' only
\* from 'connecting' and only in the socket's open event.
C33_StatusAfterStop ==
    [][ /\ ( /\ ~rt.isListening /\ rt.status = "disconnected" /\ ~rt.isConnected
             /\ rt'.op.name \in SocketEvents )
            => (rt'.status = "disconnected" /\ ~rt'.isConnected)
        /\ (rt'.status = "connected" /\ rt.status # "connected")
            => (rt.status = "connecting" /\ rt'.op.name = "onopen") ]_vars

\* the managers of useSpeechRecognition whose engine was started and has not
\* ended
EnginesStarted(s) ==
    {m \in DOMAIN s.mgr : s.mgr[m].eng \in {"starting", "running", "stopping"}}

\* C34: in useSpeechRecognition at most one SpeechRecognitionManager made by
\* the hook is started and not yet ended, whatever start(), stop(), the
\* retry timer and the engines do.
C34_OneEngine == Cardinality(EnginesStarted(sr)) <= 1

\* the fallback restarts of manager m that are scheduled and have not run
FallbacksPending(s, m) ==
    Cardinality({j \in 1..Len(s.timers) :
                     s.timers[j].kind = "fallback" /\ s.timers[j].inst = m})

RunEnd(words, i) ==
    CHOOSE j \in i..Len(words) :
        /\ \A k \in i..j : WordSpeakerTag(words[k]) = WordSpeakerTag(words[i])
        /\ j = Len(words) \/ WordSpeakerTag(words[j + 1]) # WordSpeakerTag(words[i])

\* the texts of the words i..j joined by single spaces
RECURSIVE JoinWords(_, _, _)
JoinWords(words, i, j) ==
    IF i > j THEN <<>>
    ELSE IF i = j THEN WordText(words[i])
    ELSE WordText(words[i]) \o <<" ">> \o JoinWords(words, i + 1, j)

\* the maximal runs of one speaker from word i on, in order: the tag of the
\* run and its words joined
RECURSIVE RunsFrom(_, _)
RunsFrom(words, i) ==
    IF i > Len(words) THEN <<>>
    ELSE LET j == RunEnd(words, i) IN
         <<[speakerTag |-> WordSpeakerTag(words[i]), text |-> JoinWords(words, i, j)]>>
             \o RunsFrom(words, j + 1)

\* the runs whose text is not blank, their text trimmed
Spoken(runs) ==
    LET trimmed == [k \in 1..Len(runs) |-> [runs[k] EXCEPT !.text = Trim(@)]] IN
    SelectSeq(trimmed, LAMBDA run : run.text # <<>>)

\* the Deepgram route has answered with segments rebuilt from the words
FromWords ==
    /\ route.name = "deepgram" /\ route.pc = "done" /\ route.status = 200
    /\ ~route.result.hasUtterances

\* C36: the segments the route rebuilds from a word list are, in order, the
\* maximal runs of consecutive words of one speaker whose joined text is not
\* blank, each with the run's speaker number plus 1 (a missing speaker counts
\* as 0) and the run's words joined by single spaces and trimmed; a run whose
\* text is blank gives no segment.
C36_SegmentsOfRuns ==
    FromWords => route.speakers = Spoken(RunsFrom(route.result.words, 1))

\* C36, a case: speaker 0 says "a", speaker 1 an empty word, speaker 0 "a"
\* again; the route answers with two segments of speakerTag 1, one after the
\* other.
C36_Witness ==
    /\ FromWords /\ Len(route.result.words) = 3
    /\ WordSpeakerTag(route.result.words[2]) = 2 /\ WordText(route.result.words[2]) = <<>>
    /\ route.speakers = <<[speakerTag |-> 1, text |-> <<"a">>],
                          [speakerTag |-> 1, text |-> <<"a">>]>>

\* C36 as stated: the segments are all the maximal runs, so that every word is
\* in one segment, each with its words joined by single spaces, and no two
\* adjacent segments have the same speakerTag.
C36_EveryRunASegment ==
    FromWords =>
        /\ route.speakers = RunsFrom(route.result.words, 1)
        /\ \A k \in 1..(Len(route.speakers) - 1) :
               route.speakers[k].speakerTag # route.speakers[k + 1].speakerTag

\* the call of Gemini that was pending has ended in this step
GeminiReplied == route.name = "gemini" /\ route.pc = "calling" /\ route' # route

RECURSIVE Surfaces(_)
Surfaces(words) == IF words = <<>> THEN <<>> ELSE Head(words).surface \o Surfaces(Tail(words))

\* the one class of the characters of a surface, "mixed" if there are several
ClassOf(surface) ==
    IF \A j \in 1..Len(surface) : CharType(surface[j]) = CharType(surface[1])
    THEN CharType(surface[1]) ELSE "mixed"

\* /api/tokenize has answered a text with the tokens of createPracticalTokens
Tokenized == tokenize.pc = "done" /\ tokenize.response.kind = "body"

\* C39: the surfaces of the tokens createPracticalTokens returns, one after
\* the other, are the text; no token is empty; the characters of a token are
\* of one class; a token of punctuation is one character; and of two adjacent
\* tokens that are not punctuation the classes differ. For the empty text
\* there is no token.
C39_PracticalRoundTrip ==
    /\ CreatePracticalTokens(<<>>) = <<>>
    /\ Tokenized =>
           LET words == tokenize.response.words IN
           /\ Surfaces(words) = tokenize.text
           /\ \A k \in 1..Len(words) :
                  /\ words[k].surface # <<>>
                  /\ ClassOf(words[k].surface) # "mixed"
                  /\ ClassOf(words[k].surface) = "punctuation" => Len(words[k].surface) = 1
           /\ \A k \in 1..(Len(words) - 1) :
                  \/ ClassOf(words[k].surface) = "punctuation"
                  \/ ClassOf(words[k + 1].surface) = "punctuation"
                  \/ ClassOf(words[k].surface) # ClassOf(words[k + 1].surface)

\* C39, a case: the text of two punctuation characters and a letter has been
\* answered with three tokens, one for each character.
C39_Witness ==
    /\ Tokenized /\ tokenize.text = <<Maru, Maru, "a">>
    /\ Len(tokenize.response.words) = 3

\* C38: in a TokenizedText that is mounted with a text that is not blank, the
\* words are a segmentation of that text: their surfaces, one after the
\* other, are the text, whatever the text was before and whichever requests
\* were answered since.
C38_WordsOfCurrentText ==
    (tok.pc = "mounted" /\ Trim(tok.text) # <<>>) => Surfaces(tok.words) = tok.text

====
